---- MODULE Spec2Model ----
(***************************************************************************)
(* Chain state engine of the RH node (src/src/storage/state.rs) with the   *)
(* UTXO set (storage/utxo.rs), the transaction value sums                  *)
(* (validation/transaction.rs), the reward schedule (consensus/rewards.rs) *)
(* and the block validator's predicates (consensus/validation.rs).         *)
(*                                                                         *)
(* Hashes are modelled symbolically: the digest of a value is a record of  *)
(* exactly the bytes the code feeds to hash_bytes, so two values collide   *)
(* iff the code serialises them to the same bytes.  Every hash is a        *)
(* record, Hash::zero() is ZeroHash.                                       *)
(*                                                                         *)
(* u64 quantities are kept in a machine word of U64_MAX + 1 values; sums   *)
(* the code writes with `+`, `-` or `.sum()` overflow as the build         *)
(* decides: a panic when overflow_checks is on (debug profile), a          *)
(* wrap-around when it is off (release profile).                           *)
(***************************************************************************)
EXTENDS Integers, Sequences, FiniteSets, TLC

\* ------------------------------------------------------------ constants
\* Amounts and the machine word are scaled down together: the model keeps
\* TOTAL_SUPPLY well below the largest u64, as the source does.  The public
\* issuance is small enough for a chain of two blocks to exhaust it, and the
\* decay denominator is scaled with it: the first block is paid the whole
\* issuance, enough for several outputs that can each pay a fee.
U64_MAX == 15
FOUNDER_ALLOCATION == 2
PUBLIC_ISSUANCE == 4
INITIAL_REWARD_NUMERATOR == 50
DECAY_RATE == 50
CHAIN_ID == 1
MAX_REORG_DEPTH == 10
DIFFICULTY_ADJUSTMENT_INTERVAL == 2016
GENESIS_DIFFICULTY == 503382015
MIN_DIFFICULTY == 486604799
\* one time unit is an hour
GENESIS_TIMESTAMP == 1
MAX_FUTURE_TIME == 2
MIN_PAST_TIME == 1
MAX_TIMESTAMPS == 11
\* 0xFFFFFFFF and 0xFFFFFFFE, the sentinel output indices
COINBASE_INDEX == 255
CONSTITUTION_INDEX == 254
CHECKPOINTS == {0}
MIN_RELAY_FEE == 1
\* sizes are scaled with the amounts: the unit is one serialised input
MAX_MEMPOOL_BYTES == 2

\* ------------------------------------------------------------ bounds
\* blocks the index may hold, genesis included
MaxBlocks == 3
\* height of the longest chain of the timestamp specification
MaxTimedBlocks == 12
\* height of the longest chain of the pool specification
MaxPoolHeight == 2
\* height of the longest chain of the reorganization specification, and the
\* number of side blocks it indexes
MaxReorgHeight == 12
MaxSideBlocks == 1
\* blocks the index of the store specification may hold, genesis included
MaxStoreBlocks == 4

\* ------------------------------------------------------------ hashes
ZeroHash == [zero |-> TRUE]
\* a digest no block of the model has: an unknown parent
UnknownHash == [unknown |-> TRUE]

Keys == {"miner", "bob"}
NoKey == "none"

\* hash_bytes(&public_key.0)
PubkeyHash(pk) == [pk |-> pk]
\* hash_bytes(FOUNDER_ADDRESS.as_bytes()) and the constitution digest: no
\* 32-byte public key hashes to either
FounderPkh == [addr |-> "founder"]
ConstitutionPkh == [doc |-> "constitution"]

\* ------------------------------------------------------------ machine words
Wrap(n) == n % (U64_MAX + 1)
Overflows(n) == n > U64_MAX \/ n < 0
saturating_add(a, b) == IF a + b > U64_MAX THEN U64_MAX ELSE a + b
saturating_sub(a, b) == IF a < b THEN 0 ELSE a - b

Min(a, b) == IF a < b THEN a ELSE b

\* ------------------------------------------------------------ transactions
TxIn(prev, idx, sig, pk) ==
    [prev_tx_hash |-> prev, output_index |-> idx, signature |-> sig, public_key |-> pk]
TxOut(amount, pkh) == [amount |-> amount, pubkey_hash |-> pkh]
\* Transaction::new, with the nonce that state.rs 607 and 673 read
Tx(inputs, outputs) == [inputs |-> inputs, outputs |-> outputs, nonce |-> 0]
WithNonce(tx, nonce) == [tx EXCEPT !.nonce = nonce]

coinbase(reward, miner_pubkey_hash) ==
    Tx(<<TxIn(ZeroHash, COINBASE_INDEX, NoKey, NoKey)>>, <<TxOut(reward, miner_pubkey_hash)>>)

is_coinbase(tx) ==
    /\ Len(tx.inputs) = 1
    /\ tx.inputs[1].prev_tx_hash = ZeroHash
    /\ tx.inputs[1].output_index = COINBASE_INDEX

\* to_bytes_for_signing: the inputs without signature and public key, and
\* the outputs (version 1 and lock_time 0 in every transaction of the model)
TxHash(tx) ==
    [inputs |-> [i \in 1..Len(tx.inputs) |->
                    <<tx.inputs[i].prev_tx_hash, tx.inputs[i].output_index>>],
     outputs |-> tx.outputs]

\* Iterator::sum over u64: the exact sum, to be wrapped or trapped by the caller
RECURSIVE SumSeq(_)
SumSeq(s) == IF s = <<>> THEN 0 ELSE Head(s) + SumSeq(Tail(s))

OutputAmounts(tx) == [i \in 1..Len(tx.outputs) |-> tx.outputs[i].amount]
InputAmounts(tx, utxos) ==
    [i \in 1..Len(tx.inputs) |->
        LET k == <<tx.inputs[i].prev_tx_hash, tx.inputs[i].output_index>>
        IN IF k \in DOMAIN utxos THEN utxos[k].amount ELSE 0]

\* the u64 the release build computes
total_output_value(tx) == Wrap(SumSeq(OutputAmounts(tx)))
total_input_value(tx, utxos) == Wrap(SumSeq(InputAmounts(tx, utxos)))
\* whether a prefix of the sum leaves u64 (all terms are non-negative, so the
\* running sum overflows iff the total does)
output_sum_overflows(tx) == Overflows(SumSeq(OutputAmounts(tx)))
input_sum_overflows(tx, utxos) == Overflows(SumSeq(InputAmounts(tx, utxos)))

\* a signature is modelled by the key that signed this transaction's
\* signing hash; it verifies under public_key iff that key made it
verify_signatures(tx, utxos) ==
    \/ is_coinbase(tx)
    \/ \A i \in 1..Len(tx.inputs) :
          LET inp == tx.inputs[i]
              k == <<inp.prev_tx_hash, inp.output_index>>
          IN /\ inp.signature = inp.public_key
             /\ k \in DOMAIN utxos
             /\ PubkeyHash(inp.public_key) = utxos[k].pubkey_hash

\* ------------------------------------------------------------ UTXO set
Utxo(amount, pkh, height) == [amount |-> amount, pubkey_hash |-> pkh, height |-> height]

MapPut(f, k, v) == [x \in DOMAIN f \cup {k} |-> IF x = k THEN v ELSE f[x]]
MapDel(f, k) == [x \in DOMAIN f \ {k} |-> f[x]]
EmptyMap == [x \in {} |-> 0]

RECURSIVE RemoveInputs(_, _, _)
RemoveInputs(utxos, inputs, i) ==
    IF i > Len(inputs) THEN utxos
    ELSE RemoveInputs(MapDel(utxos, <<inputs[i].prev_tx_hash, inputs[i].output_index>>),
                      inputs, i + 1)

RECURSIVE AddOutputs(_, _, _, _, _)
AddOutputs(utxos, h, outputs, height, i) ==
    IF i > Len(outputs) THEN utxos
    ELSE AddOutputs(MapPut(utxos, <<h, i - 1>>,
                           Utxo(outputs[i].amount, outputs[i].pubkey_hash, height)),
                    h, outputs, height, i + 1)

apply_transaction(utxos, tx, height) ==
    LET spent == IF is_coinbase(tx) THEN utxos ELSE RemoveInputs(utxos, tx.inputs, 1)
    IN AddOutputs(spent, TxHash(tx), tx.outputs, height, 1)

RECURSIVE AddBack(_, _, _)
AddBack(utxos, spent, i) ==
    IF i > Len(spent) THEN utxos
    ELSE AddBack(MapPut(utxos, spent[i][1], spent[i][2]), spent, i + 1)

revert_transaction(utxos, tx, spent_utxos) ==
    LET h == TxHash(tx)
        removed == [k \in DOMAIN utxos \ {<<h, i - 1>> : i \in 1..Len(tx.outputs)} |-> utxos[k]]
    IN AddBack(removed, spent_utxos, 1)

\* ------------------------------------------------------------ rewards
\* the reward without the rule that at least one unit is paid while supply remains
block_reward_no_minimum(height, total_issued_so_far, issuance, decay_rate) ==
    IF height = 0 THEN 0
    ELSE LET remaining == saturating_sub(issuance, total_issued_so_far)
         IN Min((remaining * INITIAL_REWARD_NUMERATOR) \div decay_rate, remaining)

\* the reward function over a cap and a decay denominator
block_reward(height, total_issued_so_far, issuance, decay_rate) ==
    IF height = 0 THEN 0
    ELSE LET remaining == saturating_sub(issuance, total_issued_so_far)
             reward == Min((remaining * INITIAL_REWARD_NUMERATOR) \div decay_rate, remaining)
         IN IF remaining = 0 THEN 0
            ELSE IF reward = 0 /\ remaining > 0 THEN 1
            ELSE reward

calculate_block_reward(height, total_issued_so_far) ==
    block_reward(height, total_issued_so_far, PUBLIC_ISSUANCE, DECAY_RATE)

\* ------------------------------------------------------------ blocks
hash_pair(l, r) == [left |-> l, right |-> r]

RECURSIVE MerkleLevel(_)
MerkleLevel(level) ==
    IF Len(level) = 1 THEN level[1]
    ELSE LET padded == IF Len(level) % 2 = 1 THEN Append(level, level[Len(level)]) ELSE level
         IN MerkleLevel([i \in 1..(Len(padded) \div 2) |->
                            hash_pair(padded[2 * i - 1], padded[2 * i])])

compute_merkle_root(hashes) ==
    IF hashes = <<>> THEN ZeroHash ELSE MerkleLevel(hashes)

\* block.rs 11-24 with the chain_id that state.rs 228 reads and genesis.rs 72
\* passes to BlockHeader::new; the constant version field is left out
BlockHeader(chain_id, prev_hash, merkle_root, timestamp, difficulty_target, nonce) ==
    [chain_id |-> chain_id, prev_hash |-> prev_hash, merkle_root |-> merkle_root,
     timestamp |-> timestamp, difficulty_target |-> difficulty_target, nonce |-> nonce]

Block(header, transactions) == [header |-> header, transactions |-> transactions]

\* BlockHeader::hash: the digest of the serialised header
BlockHash(block) == block.header

TxHashes(txs) == [i \in 1..Len(txs) |-> TxHash(txs[i])]

founder_tx == coinbase(FOUNDER_ALLOCATION, FounderPkh)
constitution_tx ==
    Tx(<<TxIn(ZeroHash, CONSTITUTION_INDEX, NoKey, NoKey)>>, <<TxOut(0, ConstitutionPkh)>>)

create_genesis_block ==
    LET transactions == <<founder_tx, constitution_tx>>
    IN Block(BlockHeader(CHAIN_ID, ZeroHash, compute_merkle_root(TxHashes(transactions)),
                         GENESIS_TIMESTAMP, GENESIS_DIFFICULTY, 0),
             transactions)

GenesisHash == BlockHash(create_genesis_block)

\* ------------------------------------------------------------ chain state
VARIABLES
    utxo_set,                 \* UTXOKey -> UTXO
    height,
    tip_hash,
    total_issued,
    difficulty,
    block_index,              \* Hash -> BlockIndexEntry
    full_blocks,              \* Hash -> Block
    height_to_hash,           \* main chain only
    mempool,                  \* tx hash -> Transaction
    next_nonce,               \* sender pubkey hash -> u64
    recent_block_timestamps,  \* VecDeque of at most 11 timestamps
    overflow_checks,          \* the build profile: TRUE traps integer overflow
    poisoned,                 \* a panic unwound through the ChainState mutex
    torn,                     \* some call returned an error after it had changed the state
    db,                       \* the store: the utxos tree and the metadata tree
    peers,                    \* PeerManager: SocketAddr -> PeerInfo
    connected,                \* PeerManager: the connected addresses
    handled,                  \* handle_peer: the message the loop handled last
    sent,                     \* handle_peer: what that handling put on peer_tx
    lock,                     \* the task that holds the ChainState mutex, or "none"
    pc,                       \* task -> the place its code has reached
    work,                     \* task -> the message, transaction or block it is busy with
    broadcasts,               \* the broadcast_message calls made so far
    stop_signal,              \* Miner::stop_signal
    workers,                  \* <<round, i>> -> the spawn_blocking worker of that round
    results,                  \* the channel from the workers of this round
    round,                    \* the rounds of the mining loop so far
    schedule,                 \* calculate_block_reward: its arguments and what it returned
    retarget,                 \* calculate_next_difficulty: its arguments and what it returned
    pm_lock,                  \* the task that holds the PeerManager mutex, or "none"
    remote,                   \* the chain state and store of the peer at the other end
    to_node,                  \* the messages on their way from the peer to this node
    to_peer,                  \* the messages on their way from this node to the peer
    link                      \* the connection: whether it is up, and each end's local_height

chain_vars == <<utxo_set, height, tip_hash, total_issued, difficulty, block_index, full_blocks,
          height_to_hash, mempool, next_nonce, recent_block_timestamps, overflow_checks,
          poisoned, torn, db>>

net_vars == <<peers, connected>>

sync_vars == <<handled, sent>>

node_vars == <<lock, pc, work, broadcasts, stop_signal>>

mine_vars == <<workers, results, round>>

calc_vars == <<schedule, retarget>>

wire_vars == <<pm_lock, remote, to_node, to_peer, link>>

vars == <<chain_vars, net_vars, sync_vars, node_vars, mine_vars, calc_vars, wire_vars>>

\* the ChainState struct as one value
State ==
    [utxo_set |-> utxo_set, height |-> height, tip_hash |-> tip_hash,
     total_issued |-> total_issued, difficulty |-> difficulty,
     block_index |-> block_index, full_blocks |-> full_blocks,
     height_to_hash |-> height_to_hash, mempool |-> mempool, next_nonce |-> next_nonce,
     recent_block_timestamps |-> recent_block_timestamps]

BlockIndexEntry(header, h, issued, undo_data) ==
    [header |-> header, height |-> h, total_issued |-> issued, undo_data |-> undo_data]

RECURSIVE ApplyAll(_, _, _, _)
ApplyAll(utxos, txs, h, i) ==
    IF i > Len(txs) THEN utxos
    ELSE ApplyAll(apply_transaction(utxos, txs[i], h), txs, h, i + 1)

\* ChainState::new
new(genesis_block) ==
    [utxo_set |-> ApplyAll(EmptyMap, genesis_block.transactions, 0, 1),
     height |-> 0,
     tip_hash |-> BlockHash(genesis_block),
     total_issued |-> 0,
     difficulty |-> genesis_block.header.difficulty_target,
     block_index |-> MapPut(EmptyMap, BlockHash(genesis_block),
                            BlockIndexEntry(genesis_block.header, 0, 0, <<>>)),
     full_blocks |-> MapPut(EmptyMap, BlockHash(genesis_block), genesis_block),
     height_to_hash |-> MapPut(EmptyMap, 0, BlockHash(genesis_block)),
     mempool |-> EmptyMap,
     next_nonce |-> EmptyMap,
     recent_block_timestamps |-> <<>>]

\* sort_unstable on the copied timestamps
RECURSIVE SortTimes(_)
SortTimes(s) ==
    IF s = <<>> THEN <<>>
    ELSE LET m == CHOOSE i \in 1..Len(s) : \A j \in 1..Len(s) : s[i] <= s[j]
         IN <<s[m]>> \o SortTimes([k \in 1..(Len(s) - 1) |-> IF k < m THEN s[k] ELSE s[k + 1]])

calculate_median_time(s) ==
    IF s.recent_block_timestamps = <<>> THEN 0
    ELSE SortTimes(s.recent_block_timestamps)[(Len(s.recent_block_timestamps) \div 2) + 1]

\* the timestamp check without its lower bound
validate_block_timestamp_no_floor(s, timestamp, now) ==
    IF timestamp > now + MAX_FUTURE_TIME THEN "timestamp too far in future" ELSE ""

\* "" when the timestamp passes, the error otherwise
validate_block_timestamp(s, timestamp, now) ==
    IF timestamp > now + MAX_FUTURE_TIME THEN "timestamp too far in future"
    ELSE LET median_time == calculate_median_time(s)
         IN IF median_time > 0 /\ timestamp < saturating_sub(median_time, MIN_PAST_TIME)
            THEN "timestamp too old"
            ELSE ""

get_block_height(s, hash) ==
    IF hash \in DOMAIN s.block_index THEN s.block_index[hash].height ELSE -1

\* ------------------------------------------------------------ results
Ok(s) == [result |-> "ok", err |-> "", st |-> s]
Err(s, e) == [result |-> "err", err |-> e, st |-> s]
\* an arithmetic overflow trapped by the debug profile
Panic(s) == [result |-> "panic", err |-> "attempt to compute with overflow", st |-> s]

OutPoint(input) == <<input.prev_tx_hash, input.output_index>>

\* ------------------------------------------------------------ apply_block
\* the loop over block.transactions (state.rs 252-285); acc carries
\* coinbase_reward, total_subsidy, block_fees and spent_utxos, and status
\* stops the loop at the first error or panic
RECURSIVE ValidateTransactions(_, _, _, _, _)
ValidateTransactions(s, txs, new_height, i, acc) ==
    IF i > Len(txs) \/ acc.status # "" THEN acc
    ELSE LET tx == txs[i] IN
      IF is_coinbase(tx) THEN
        IF acc.coinbase_reward > 0
        THEN [acc EXCEPT !.status = "Multiple coinbase transactions in block"]
        ELSE IF overflow_checks /\ output_sum_overflows(tx)
        THEN [acc EXCEPT !.status = "panic"]
        ELSE ValidateTransactions(s, txs, new_height, i + 1,
                [acc EXCEPT !.coinbase_reward = total_output_value(tx),
                            !.total_subsidy = calculate_block_reward(new_height, s.total_issued)])
      ELSE
        IF ~verify_signatures(tx, s.utxo_set)
        THEN [acc EXCEPT !.status = "Invalid signature"]
        ELSE IF overflow_checks /\ (input_sum_overflows(tx, s.utxo_set) \/ output_sum_overflows(tx))
        THEN [acc EXCEPT !.status = "panic"]
        ELSE LET input_val == total_input_value(tx, s.utxo_set)
                 output_val == total_output_value(tx)
             IN IF input_val < output_val
                THEN [acc EXCEPT !.status = "Insufficient input in transaction"]
                ELSE IF \E j \in 1..Len(tx.inputs) : OutPoint(tx.inputs[j]) \notin DOMAIN s.utxo_set
                THEN [acc EXCEPT !.status = "UTXO missing for transaction"]
                ELSE ValidateTransactions(s, txs, new_height, i + 1,
                        [acc EXCEPT
                            !.block_fees = saturating_add(acc.block_fees, input_val - output_val),
                            !.spent_utxos = acc.spent_utxos \o
                                [j \in 1..Len(tx.inputs) |->
                                    <<OutPoint(tx.inputs[j]), s.utxo_set[OutPoint(tx.inputs[j])]>>]])

\* a cleanup that removes the mined transactions only
CleanMinedOnly(s, block) ==
    LET mined == {TxHash(block.transactions[i]) : i \in 1..Len(block.transactions)}
        pool == [h \in DOMAIN s.mempool \ mined |-> s.mempool[h]]
        gone == {PubkeyHash(s.mempool[h].inputs[1].public_key) :
                    h \in {h \in DOMAIN s.mempool \cap mined :
                            /\ s.mempool[h].inputs # <<>>
                            /\ ~\E g \in DOMAIN pool :
                                  /\ pool[g].inputs # <<>>
                                  /\ pool[g].inputs[1].public_key = s.mempool[h].inputs[1].public_key}}
    IN [s EXCEPT !.mempool = pool,
                 !.next_nonce = [k \in DOMAIN s.next_nonce \ gone |-> s.next_nonce[k]]]

\* state.rs 293-333: the mined and the conflicting transactions leave the
\* pool; a sender with nothing left in the pool loses its next_nonce entry
CleanMempool(s, block) ==
    LET txs == block.transactions
        block_inputs == UNION {{OutPoint(txs[i].inputs[j]) : j \in 1..Len(txs[i].inputs)} :
                                 i \in {i \in 1..Len(txs) : ~is_coinbase(txs[i])}}
        txs_to_remove ==
            {TxHash(txs[i]) : i \in 1..Len(txs)} \cup
            {h \in DOMAIN s.mempool :
                \E j \in 1..Len(s.mempool[h].inputs) : OutPoint(s.mempool[h].inputs[j]) \in block_inputs}
        removed == txs_to_remove \cap DOMAIN s.mempool
        pool == [h \in DOMAIN s.mempool \ txs_to_remove |-> s.mempool[h]]
        gone == {PubkeyHash(s.mempool[h].inputs[1].public_key) :
                    h \in {h \in removed :
                            /\ s.mempool[h].inputs # <<>>
                            /\ ~\E g \in DOMAIN pool :
                                  /\ pool[g].inputs # <<>>
                                  /\ pool[g].inputs[1].public_key = s.mempool[h].inputs[1].public_key}}
    IN [s EXCEPT !.mempool = pool,
                 !.next_nonce = [k \in DOMAIN s.next_nonce \ gone |-> s.next_nonce[k]]]

PushTimestamp(q, timestamp) ==
    LET pushed == Append(q, timestamp)
    IN IF Len(pushed) > MAX_TIMESTAMPS THEN Tail(pushed) ELSE pushed

\* the issuance counter advanced by what the coinbase pays, fees included
AdvanceIssuedByCoinbase(issued, total_subsidy, coinbase_reward) == saturating_add(issued, coinbase_reward)

\* total_issued after a block whose subsidy is total_subsidy and whose
\* coinbase pays coinbase_reward (state.rs 356)
AdvanceIssued(issued, total_subsidy, coinbase_reward) == saturating_add(issued, total_subsidy)

\* state.rs 335-378: the mutation, once the block is accepted
CommitBlock(s, block, new_height, acc) ==
    LET c == CleanMempool(s, block)
        issued == AdvanceIssued(s.total_issued, acc.total_subsidy, acc.coinbase_reward)
    IN [c EXCEPT
          !.utxo_set = ApplyAll(s.utxo_set, block.transactions, new_height, 1),
          !.total_issued = issued,
          !.height = new_height,
          !.tip_hash = BlockHash(block),
          !.difficulty = block.header.difficulty_target,
          !.height_to_hash = MapPut(s.height_to_hash, new_height, BlockHash(block)),
          !.recent_block_timestamps = PushTimestamp(s.recent_block_timestamps, block.header.timestamp),
          !.block_index = MapPut(s.block_index, BlockHash(block),
                                 BlockIndexEntry(block.header, new_height, issued, acc.spent_utxos)),
          !.full_blocks = MapPut(s.full_blocks, BlockHash(block), block)]

\* whether the header check of state.rs 240 lets the block through
ConnectsToTip(s, block) == ~(block.header.prev_hash # s.tip_hash /\ s.height > 0)

\* a header check that lets every chain id through
ChainIdIgnored(block) == TRUE

\* the replay-protection check of state.rs 228
ChainIdMatches(block) == block.header.chain_id = CHAIN_ID

apply_block(s, block, now) ==
    IF ~ChainIdMatches(block) THEN Err(s, "Block has invalid chain_id")
    ELSE IF validate_block_timestamp(s, block.header.timestamp, now) # ""
    THEN Err(s, validate_block_timestamp(s, block.header.timestamp, now))
    ELSE IF ~ConnectsToTip(s, block) THEN Err(s, "Block does not connect to current tip")
    ELSE IF overflow_checks /\ Overflows(s.height + 1) THEN Panic(s)
    ELSE
      LET new_height == Wrap(s.height + 1)
          acc == ValidateTransactions(s, block.transactions, new_height, 1,
                    [coinbase_reward |-> 0, total_subsidy |-> 0, block_fees |-> 0,
                     spent_utxos |-> <<>>, status |-> ""])
      IN IF acc.status = "panic" THEN Panic(s)
         ELSE IF acc.status # "" THEN Err(s, acc.status)
         ELSE IF overflow_checks /\ Overflows(acc.total_subsidy + acc.block_fees) THEN Panic(s)
         ELSE IF acc.coinbase_reward > Wrap(acc.total_subsidy + acc.block_fees)
         THEN Err(s, "Coinbase reward too high")
         ELSE Ok(CommitBlock(s, block, new_height, acc))

\* ------------------------------------------------------------ revert
Reverse(q) == [i \in 1..Len(q) |-> q[Len(q) + 1 - i]]

\* state.rs 403-413: the transactions in reverse order, each given the undo
\* entries whose key hash equals the prev_tx_hash of one of its inputs
RECURSIVE RevertAll(_, _, _, _)
RevertAll(utxos, txs, spent_utxos, i) ==
    IF i < 1 THEN utxos
    ELSE LET tx == txs[i]
             tx_spent == SelectSeq(spent_utxos,
                            LAMBDA e : \E j \in 1..Len(tx.inputs) : tx.inputs[j].prev_tx_hash = e[1][1])
         IN RevertAll(revert_transaction(utxos, tx, tx_spent), txs, spent_utxos, i - 1)

PopBack(q) == IF q = <<>> THEN q ELSE SubSeq(q, 1, Len(q) - 1)

revert_block(s, block, spent_utxos) ==
    LET undone == [s EXCEPT
                     !.utxo_set = RevertAll(s.utxo_set, block.transactions, spent_utxos,
                                            Len(block.transactions)),
                     !.height_to_hash = MapDel(s.height_to_hash, s.height)]
        prev == block.header.prev_hash
        known == prev \in DOMAIN s.block_index
    IN IF overflow_checks /\ Overflows(s.height - 1) THEN Panic(undone)
       ELSE Ok([undone EXCEPT
                  !.height = Wrap(s.height - 1),
                  !.tip_hash = prev,
                  !.recent_block_timestamps = PopBack(s.recent_block_timestamps),
                  !.total_issued = IF known THEN s.block_index[prev].total_issued
                                   ELSE s.total_issued,
                  !.difficulty = IF known THEN s.block_index[prev].header.difficulty_target
                                 ELSE s.difficulty])

revert_tip(s) ==
    IF s.tip_hash \notin DOMAIN s.full_blocks THEN Err(s, "Tip block not found")
    ELSE IF s.tip_hash \notin DOMAIN s.block_index THEN Err(s, "Tip index not found")
    ELSE revert_block(s, s.full_blocks[s.tip_hash], s.block_index[s.tip_hash].undo_data)

\* ------------------------------------------------------------ reorganize
OnMainChain(s, hash) ==
    /\ hash \in DOMAIN s.block_index
    /\ s.block_index[hash].height \in DOMAIN s.height_to_hash
    /\ s.height_to_hash[s.block_index[hash].height] = hash

\* state.rs 481-489: walk back from the target to a block of the main chain
RECURSIVE TraceBack(_, _, _)
TraceBack(s, curr_hash, new_chain) ==
    IF curr_hash \notin DOMAIN s.block_index THEN [curr |-> curr_hash, chain |-> new_chain]
    ELSE IF OnMainChain(s, curr_hash) THEN [curr |-> curr_hash, chain |-> new_chain]
    ELSE IF s.block_index[curr_hash].height = 0
    THEN [curr |-> curr_hash, chain |-> Append(new_chain, curr_hash)]
    ELSE TraceBack(s, s.block_index[curr_hash].header.prev_hash, Append(new_chain, curr_hash))

\* a check of the checkpoints alone
validate_reorg_any_depth(s, common_ancestor_height) ==
    IF \E checkpoint_height \in CHECKPOINTS : common_ancestor_height < checkpoint_height
    THEN "Cannot reorg past checkpoint"
    ELSE ""

\* "" when the reorganization is allowed, the error (or "panic") otherwise
validate_reorg_depth(s, common_ancestor_height) ==
    IF overflow_checks /\ Overflows(s.height - common_ancestor_height) THEN "panic"
    ELSE IF Wrap(s.height - common_ancestor_height) > MAX_REORG_DEPTH
    THEN "Reorg depth exceeds max allowed depth"
    ELSE IF \E checkpoint_height \in CHECKPOINTS : common_ancestor_height < checkpoint_height
    THEN "Cannot reorg past checkpoint"
    ELSE ""

RECURSIVE RevertUntil(_, _)
RevertUntil(s, common_height) ==
    IF s.height > common_height
    THEN LET r == revert_tip(s)
         IN IF r.result = "ok" THEN RevertUntil(r.st, common_height) ELSE r
    ELSE Ok(s)

RECURSIVE ApplyChain(_, _, _, _)
ApplyChain(s, new_chain, now, i) ==
    IF i > Len(new_chain) THEN Ok(s)
    ELSE IF new_chain[i] \notin DOMAIN s.full_blocks
    THEN Err(s, "Block data missing during re-org")
    ELSE LET r == apply_block(s, s.full_blocks[new_chain[i]], now)
         IN IF r.result = "ok" THEN ApplyChain(r.st, new_chain, now, i + 1) ELSE r

reorganize(s, target_hash, now) ==
    LET t == TraceBack(s, target_hash, <<>>)
        new_chain == Reverse(t.chain)
        common_height == get_block_height(s, t.curr)
    IN IF common_height = -1 THEN Err(s, "Common ancestor not in index")
       ELSE IF validate_reorg_depth(s, common_height) = "panic" THEN Panic(s)
       ELSE IF validate_reorg_depth(s, common_height) # ""
       THEN Err(s, validate_reorg_depth(s, common_height))
       ELSE LET reverted == RevertUntil(s, common_height)
            IN IF reverted.result # "ok" THEN reverted
               ELSE ApplyChain(reverted.st, new_chain, now, 1)

\* ------------------------------------------------------------ index_block
index_block(s, block) ==
    IF BlockHash(block) \in DOMAIN s.block_index THEN s
    ELSE LET parent == get_block_height(s, block.header.prev_hash)
             h == IF parent = -1 THEN 0 ELSE parent + 1
         IN [s EXCEPT
               !.block_index = MapPut(s.block_index, BlockHash(block),
                                      BlockIndexEntry(block.header, h, 0, <<>>)),
               !.full_blocks = MapPut(s.full_blocks, BlockHash(block), block)]

\* ------------------------------------------------------------ mempool
\* bincode::serialized_size, counted in serialised inputs: the signature and
\* the public key make an input several times larger than an output or the
\* fixed fields, which are not counted
TxSize(tx) == Len(tx.inputs)

Max(a, b) == IF a > b THEN a ELSE b

RECURSIVE SizeOfAll(_, _)
SizeOfAll(pool, hashes) ==
    IF hashes = {} THEN 0
    ELSE LET h == CHOOSE h \in hashes : TRUE
         IN TxSize(pool[h]) + SizeOfAll(pool, hashes \ {h})

mempool_bytes(s) == SizeOfAll(s.mempool, DOMAIN s.mempool)

calculate_fee_rate(tx, fee) == fee \div Max(TxSize(tx), 1)

\* the fee rate of a pool transaction against the present UTXO set
\* (state.rs 613-615 and 649-652)
PoolFeeRate(s, t) ==
    calculate_fee_rate(t, saturating_sub(total_input_value(t, s.utxo_set), total_output_value(t)))

Sender(tx) == PubkeyHash(tx.inputs[1].public_key)

\* state.rs 667-674
InsertTx(s, tx) ==
    [s EXCEPT !.mempool = MapPut(s.mempool, TxHash(tx), tx),
              !.next_nonce = IF tx.inputs # <<>>
                             THEN MapPut(s.next_nonce, Sender(tx), tx.nonce + 1)
                             ELSE s.next_nonce]

\* a size check that finds room for everything
NeverOver(current_mempool_bytes, tx_size) == FALSE

OverCapacity(current_mempool_bytes, tx_size) ==
    current_mempool_bytes + tx_size > MAX_MEMPOOL_BYTES

\* the entries min_by_key may return: HashMap iteration order decides among
\* the transactions of lowest fee rate
LowestFeeRate(s) ==
    {h \in DOMAIN s.mempool :
        \A g \in DOMAIN s.mempool : PoolFeeRate(s, s.mempool[h]) <= PoolFeeRate(s, s.mempool[g])}

\* state.rs 641-676: the outcomes of the size check, the eviction and the
\* insertion
Capacity(s, tx) ==
    IF ~OverCapacity(mempool_bytes(s), TxSize(tx)) THEN {Ok(InsertTx(s, tx))}
    ELSE IF DOMAIN s.mempool = {} THEN {Err(s, "Mempool full")}
    ELSE {LET evicted == [s EXCEPT !.mempool = MapDel(s.mempool, evict_hash)]
          IN IF OverCapacity(mempool_bytes(evicted), TxSize(tx))
             THEN Err(evicted, "Mempool full: Cannot add transaction with higher fee rate")
             ELSE Ok(InsertTx(evicted, tx))
          : evict_hash \in LowestFeeRate(s)}

\* a double-spend check that finds no conflict
SpendsNothingPooled(s, tx) == FALSE

\* state.rs 633-639
SpendsPoolInput(s, tx) ==
    \E i \in 1..Len(tx.inputs), h \in DOMAIN s.mempool :
        \E j \in 1..Len(s.mempool[h].inputs) :
            OutPoint(s.mempool[h].inputs[j]) = OutPoint(tx.inputs[i])

DoubleSpendCheck(s, tx) ==
    IF SpendsPoolInput(s, tx)
    THEN {Err(s, "Transaction double-spends an existing mempool transaction")}
    ELSE Capacity(s, tx)

\* the pool transactions the search of state.rs 606-608 may return
SameSenderAndNonce(s, tx) ==
    {h \in DOMAIN s.mempool :
        /\ s.mempool[h].inputs # <<>>
        /\ s.mempool[h].inputs[1].public_key = tx.inputs[1].public_key
        /\ s.mempool[h].nonce = tx.nonce}

\* a replacement rule that lets an equal fee rate through
ReplacementRefusedBelow(fee_rate, existing_fee_rate) == fee_rate < existing_fee_rate

\* state.rs 617
ReplacementRefused(fee_rate, existing_fee_rate) == fee_rate <= existing_fee_rate

\* a nonce rule that lets gaps through
NonceVerdictNoGap(nonce, expected_nonce) ==
    IF nonce < expected_nonce THEN "Transaction nonce is too old" ELSE ""

\* state.rs 623-629: "" when the nonce is the expected one
NonceVerdict(nonce, expected_nonce) ==
    IF nonce < expected_nonce THEN "Transaction nonce is too old"
    ELSE IF nonce > expected_nonce THEN "Transaction nonce gap"
    ELSE ""

get_next_nonce(s, sender_pubkey_hash) ==
    IF sender_pubkey_hash \in DOMAIN s.next_nonce THEN s.next_nonce[sender_pubkey_hash] ELSE 0

\* state.rs 597-630
NonceCheck(s, tx, fee_rate) ==
    IF tx.inputs = <<>> THEN DoubleSpendCheck(s, tx)
    ELSE LET expected_nonce == get_next_nonce(s, Sender(tx))
             found == SameSenderAndNonce(s, tx)
         IN IF found # {}
            THEN UNION {IF ReplacementRefused(fee_rate, PoolFeeRate(s, s.mempool[existing_hash]))
                        THEN {Err(s, "Replacement transaction must have higher fee rate")}
                        ELSE DoubleSpendCheck([s EXCEPT !.mempool = MapDel(s.mempool, existing_hash)], tx)
                        : existing_hash \in found}
            ELSE IF NonceVerdict(tx.nonce, expected_nonce) # ""
            THEN {Err(s, NonceVerdict(tx.nonce, expected_nonce))}
            ELSE DoubleSpendCheck(s, tx)

\* the outcomes of add_to_mempool: one, unless the iteration order of the
\* pool decides which transaction is replaced or evicted
add_to_mempool(s, tx) ==
    IF TxHash(tx) \in DOMAIN s.mempool THEN {Err(s, "Transaction already in mempool")}
    ELSE IF is_coinbase(tx) THEN {Err(s, "Coinbase transaction cannot be added to mempool")}
    ELSE IF ~verify_signatures(tx, s.utxo_set) THEN {Err(s, "Invalid signature")}
    ELSE IF overflow_checks /\ (input_sum_overflows(tx, s.utxo_set) \/ output_sum_overflows(tx))
    THEN {Panic(s)}
    ELSE LET input_val == total_input_value(tx, s.utxo_set)
             output_val == total_output_value(tx)
         IN IF input_val < output_val THEN {Err(s, "Insufficient input")}
            ELSE IF calculate_fee_rate(tx, input_val - output_val) < MIN_RELAY_FEE
            THEN {Err(s, "Transaction fee too low")}
            ELSE NonceCheck(s, tx, calculate_fee_rate(tx, input_val - output_val))

\* apply_block of a node whose store is set: state.rs 380-385 write the block
\* after the state has changed, and a failed write is returned as the error
apply_block_stored(s, block, now, store_ok) ==
    LET r == apply_block(s, block, now)
    IN IF r.result = "ok" /\ ~store_ok THEN Err(r.st, "Failed to persist block") ELSE r

\* ------------------------------------------------------------ store
\* the (key, UTXO) pairs apply_block collects for the store (state.rs 336-353)
RECURSIVE NewUtxos(_, _, _)
NewUtxos(txs, new_height, i) ==
    IF i > Len(txs) THEN <<>>
    ELSE [j \in 1..Len(txs[i].outputs) |->
            <<<<TxHash(txs[i]), j - 1>>,
              Utxo(txs[i].outputs[j].amount, txs[i].outputs[j].pubkey_hash, new_height)>>]
         \o NewUtxos(txs, new_height, i + 1)

RECURSIVE RemoveKeys(_, _, _)
RemoveKeys(utxos, keys, i) ==
    IF i > Len(keys) THEN utxos ELSE RemoveKeys(MapDel(utxos, keys[i]), keys, i + 1)

\* db.rs 63-85: the spent keys leave the tree, then the new entries enter it
update_utxos(store, spent, new_utxos) ==
    [store EXCEPT !.utxos = AddBack(RemoveKeys(store.utxos, spent, 1), new_utxos, 1)]

\* db.rs 114-120
update_metadata(store, tip, h, issued) ==
    [store EXCEPT !.tip_hash = tip, !.height = h, !.total_issued = issued]

\* main.rs 130-150: the store of a fresh node holds the genesis outputs and
\* the genesis metadata
create_database(genesis_block) ==
    update_utxos(update_metadata([utxos |-> EmptyMap, tip_hash |-> ZeroHash, height |-> 0,
                                  total_issued |-> 0],
                                 BlockHash(genesis_block), 0, 0),
                 <<>>, NewUtxos(genesis_block.transactions, 0, 1))

\* the three writes of state.rs 380-385 after a successful commit to state
\* st; fail_at names the write that fails, if any, and the writes before it
\* stay in the store
StoreWrites == {"save_block", "update_utxos", "update_metadata"}

PersistBlock(store, st, block, fail_at) ==
    LET spent_utxos == st.block_index[BlockHash(block)].undo_data
        spent_keys == [i \in 1..Len(spent_utxos) |-> spent_utxos[i][1]]
        saved == update_utxos(store, spent_keys, NewUtxos(block.transactions, st.height, 1))
    IN IF fail_at = "save_block" \/ fail_at = "update_utxos" THEN store
       ELSE IF fail_at = "update_metadata" THEN saved
       ELSE update_metadata(saved, st.tip_hash, st.height, st.total_issued)

\* apply_block of a node whose store is set, with the store it leaves
apply_block_db(s, store, block, now, fail_at) ==
    LET r == apply_block(s, block, now)
    IN IF r.result # "ok" THEN [r |-> r, store |-> store]
       ELSE [r |-> IF fail_at \in StoreWrites THEN Err(r.st, "Failed to persist block") ELSE r,
             store |-> PersistBlock(store, r.st, block, fail_at)]

\* state.rs 504-507 on a node whose store is set
RECURSIVE ApplyChainDb(_, _, _, _, _)
ApplyChainDb(s, store, new_chain, now, i) ==
    IF i > Len(new_chain) THEN [r |-> Ok(s), store |-> store]
    ELSE IF new_chain[i] \notin DOMAIN s.full_blocks
    THEN [r |-> Err(s, "Block data missing during re-org"), store |-> store]
    ELSE LET a == apply_block_db(s, store, s.full_blocks[new_chain[i]], now, "none")
         IN IF a.r.result = "ok" THEN ApplyChainDb(a.r.st, a.store, new_chain, now, i + 1) ELSE a

\* reorganize on a node whose store is set: the reverts write nothing, the
\* applies write as apply_block does
reorganize_db(s, store, target_hash, now) ==
    LET t == TraceBack(s, target_hash, <<>>)
        new_chain == Reverse(t.chain)
        common_height == get_block_height(s, t.curr)
    IN IF common_height = -1 THEN [r |-> Err(s, "Common ancestor not in index"), store |-> store]
       ELSE IF validate_reorg_depth(s, common_height) = "panic" THEN [r |-> Panic(s), store |-> store]
       ELSE IF validate_reorg_depth(s, common_height) # ""
       THEN [r |-> Err(s, validate_reorg_depth(s, common_height)), store |-> store]
       ELSE LET reverted == RevertUntil(s, common_height)
            IN IF reverted.result # "ok" THEN [r |-> reverted, store |-> store]
               ELSE ApplyChainDb(reverted.st, store, new_chain, now, 1)

\* ------------------------------------------------------------ inputs
\* The blocks a caller may hand to the chain state in state s.  Transactions
\* are built against the current UTXO set; headers deviate from the honest
\* one in a single field at a time.
Clock == {4, 5}
HonestTime == 4
EarlyTime == 2
FutureTime == 7
OtherChainId == 0

OwnerKey(u) == u.pubkey_hash.pk
Spendable(s) == {k \in DOMAIN s.utxo_set : s.utxo_set[k].pubkey_hash \in {PubkeyHash(key) : key \in Keys}}

\* a signed payment of the whole output k, less fee, to `to`
Spend(s, k, fee, to) ==
    Tx(<<TxIn(k[1], k[2], OwnerKey(s.utxo_set[k]), OwnerKey(s.utxo_set[k]))>>,
       <<TxOut(s.utxo_set[k].amount - fee, PubkeyHash(to))>>)
\* the same payment signed by somebody else
Forged(s, k, to) ==
    Tx(<<TxIn(k[1], k[2], "mallory", OwnerKey(s.utxo_set[k]))>>,
       <<TxOut(s.utxo_set[k].amount, PubkeyHash(to))>>)
\* a payment of more than the output holds
Overspend(s, k, to) ==
    Tx(<<TxIn(k[1], k[2], OwnerKey(s.utxo_set[k]), OwnerKey(s.utxo_set[k]))>>,
       <<TxOut(s.utxo_set[k].amount + 1, PubkeyHash(to))>>)
\* a payment from an output that does not exist
Dangling == Tx(<<TxIn(UnknownHash, 0, "bob", "bob")>>, <<TxOut(0, PubkeyHash("bob"))>>)
\* a coinbase whose two outputs sum past the largest u64
WideCoinbase ==
    Tx(<<TxIn(ZeroHash, COINBASE_INDEX, NoKey, NoKey)>>,
       <<TxOut((U64_MAX + 1) \div 2, PubkeyHash("miner")),
         TxOut((U64_MAX + 1) \div 2, PubkeyHash("miner"))>>)

MinerPkh == PubkeyHash("miner")

TxListMenu(s) ==
    LET r == calculate_block_reward(Wrap(s.height + 1), s.total_issued)
        plain == {<<>>, <<coinbase(r, MinerPkh)>>, <<coinbase(r + 1, MinerPkh)>>,
                  <<coinbase(0, MinerPkh), coinbase(r, MinerPkh)>>,
                  <<coinbase(r, MinerPkh), coinbase(r, MinerPkh)>>,
                  <<WideCoinbase>>,
                  <<coinbase(r, MinerPkh), Dangling>>}
        spending(k) ==
            LET fee == Min(1, s.utxo_set[k].amount)
                t1 == Spend(s, k, fee, "bob")
                t2 == Spend(s, k, fee, "miner")
            IN {<<coinbase(r + fee, MinerPkh), t1>>,
                <<t1, coinbase(r + fee, MinerPkh)>>,
                <<t1>>,
                <<coinbase(r + 2 * fee, MinerPkh), t1, t2>>,
                <<coinbase(r, MinerPkh), Forged(s, k, "bob")>>,
                <<coinbase(r, MinerPkh), Overspend(s, k, "bob")>>}
    IN plain \cup UNION {spending(k) : k \in Spendable(s)}

HonestHeader(prev, txs) ==
    BlockHeader(CHAIN_ID, prev, compute_merkle_root(TxHashes(txs)), HonestTime,
                GENESIS_DIFFICULTY, 0)

\* the honest header with one field changed
HeaderVariants(prev, txs) ==
    LET h == HonestHeader(prev, txs)
    IN {[h EXCEPT !.timestamp = EarlyTime],
        [h EXCEPT !.timestamp = FutureTime],
        [h EXCEPT !.chain_id = OtherChainId],
        [h EXCEPT !.difficulty_target = MIN_DIFFICULTY],
        [h EXCEPT !.nonce = 1]}

ParentChoices(s) == {s.tip_hash, UnknownHash} \cup DOMAIN s.block_index

BlockMenu(s) ==
    LET r == calculate_block_reward(Wrap(s.height + 1), s.total_issued)
    IN UNION {
         {Block(HonestHeader(prev, txs), txs) : txs \in TxListMenu(s)} \cup
         {Block(h, <<coinbase(r, MinerPkh)>>) : h \in HeaderVariants(prev, <<coinbase(r, MinerPkh)>>)}
         : prev \in ParentChoices(s)}
    \cup {s.full_blocks[h] : h \in DOMAIN s.full_blocks}

\* index_block stores a block without looking at its transactions, so the
\* blocks offered to it vary less: an honest header over a plain coinbase, an
\* overpaying coinbase, or a payment with its fee
SideMenu(s) ==
    LET r == calculate_block_reward(Wrap(s.height + 1), s.total_issued)
        lists == {<<coinbase(r, MinerPkh)>>, <<coinbase(r + 1, MinerPkh)>>} \cup
                 {<<coinbase(r + Min(1, s.utxo_set[k].amount), MinerPkh),
                    Spend(s, k, Min(1, s.utxo_set[k].amount), "bob")>> : k \in Spendable(s)}
    IN {Block(HonestHeader(prev, txs), txs) : prev \in ParentChoices(s), txs \in lists}

\* The transactions offered to the pool in state s: payments of one output
\* with a fee and a nonce, sweeps of all outputs of one owner, and
\* transactions the pool has to refuse.
PoolFees == {0, 1, 2}
Nonces == {0, 1}

SignedInput(s, k) == TxIn(k[1], k[2], OwnerKey(s.utxo_set[k]), OwnerKey(s.utxo_set[k]))

RECURSIVE InputsOf(_, _)
InputsOf(s, keys) ==
    IF keys = {} THEN <<>>
    ELSE LET k == CHOOSE k \in keys : TRUE
         IN <<SignedInput(s, k)>> \o InputsOf(s, keys \ {k})

\* every output of one owner spent at once, all of it left to the miner
Sweep(s, key) ==
    Tx(InputsOf(s, {k \in Spendable(s) : OwnerKey(s.utxo_set[k]) = key}), <<>>)

PoolTxMenu(s) ==
    UNION {{WithNonce(Spend(s, k, fee, "bob"), nonce) :
                fee \in {f \in PoolFees : f <= s.utxo_set[k].amount}, nonce \in Nonces}
            \cup {Forged(s, k, "bob"), Overspend(s, k, "bob")}
           : k \in Spendable(s)}
    \cup {WithNonce(Sweep(s, key), nonce) : key \in Keys, nonce \in Nonces}
    \cup {coinbase(1, MinerPkh), Dangling, Tx(<<>>, <<>>)}

\* the outputs a miner may give the coinbase of a block that is owed `amount`
Payouts(amount) ==
    IF amount >= PUBLIC_ISSUANCE
    THEN {<<TxOut(amount - 3, MinerPkh), TxOut(2, PubkeyHash("bob")), TxOut(1, PubkeyHash("bob"))>>}
    ELSE {<<TxOut(amount, MinerPkh)>>}

\* the transactions a miner may put into a block: those of the pool, and
\* payments that spend what a pool transaction spends
BlockTxChoices(s) ==
    {s.mempool[h] : h \in DOMAIN s.mempool}
    \cup {Spend(s, k, 1, "miner") :
            k \in {j \in Spendable(s) :
                     /\ s.utxo_set[j].amount >= 1
                     /\ \E h \in DOMAIN s.mempool : \E i \in 1..Len(s.mempool[h].inputs) :
                           OutPoint(s.mempool[h].inputs[i]) = j}}

FeeOf(s, tx) == saturating_sub(total_input_value(tx, s.utxo_set), total_output_value(tx))

\* blocks on the tip: a coinbase alone, or a coinbase that collects the fee
\* of the transaction that follows it
PoolBlockMenu(s) ==
    LET r == calculate_block_reward(Wrap(s.height + 1), s.total_issued)
        paid(fees) == {Tx(<<TxIn(ZeroHash, COINBASE_INDEX, NoKey, NoKey)>>, outs) : outs \in Payouts(r + fees)}
        lists == {<<cb>> : cb \in paid(0)}
                 \cup UNION {{<<cb, t>> : cb \in paid(FeeOf(s, t))} : t \in BlockTxChoices(s)}
    IN {Block(HonestHeader(s.tip_hash, txs), txs) : txs \in lists}

\* ------------------------------------------------------------ behaviour
NodeInit ==
    /\ overflow_checks \in BOOLEAN
    /\ poisoned = FALSE
    /\ torn = FALSE
    /\ db = create_database(create_genesis_block)
    /\ peers = EmptyMap
    /\ connected = {}
    /\ handled = [type |-> "none"]
    /\ sent = <<>>
    /\ lock = "none"
    /\ pc = [t \in {"peer", "rpc", "miner"} |-> "idle"]
    /\ work = [t \in {"peer", "rpc", "miner"} |-> [type |-> "none", body |-> [none |-> TRUE], outcome |-> ""]]
    /\ broadcasts = {}
    /\ stop_signal = FALSE
    /\ workers = EmptyMap
    /\ results = <<>>
    /\ round = 0
    /\ pm_lock = "none"
    /\ remote = [st |-> new(create_genesis_block), store |-> create_database(create_genesis_block)]
    /\ to_node = <<>>
    /\ to_peer = <<>>
    /\ link = [up |-> FALSE, node_height |-> 0, peer_height |-> 0]
    /\ LET s == new(create_genesis_block)
       IN /\ utxo_set = s.utxo_set
          /\ height = s.height
          /\ tip_hash = s.tip_hash
          /\ total_issued = s.total_issued
          /\ difficulty = s.difficulty
          /\ block_index = s.block_index
          /\ full_blocks = s.full_blocks
          /\ height_to_hash = s.height_to_hash
          /\ mempool = s.mempool
          /\ next_nonce = s.next_nonce
          /\ recent_block_timestamps = s.recent_block_timestamps

\* no call of the two pure functions has been made
NoCall == [called |-> FALSE]

Init == NodeInit /\ schedule = NoCall /\ retarget = NoCall

\* the state and the store a call leaves behind; a panic poisons the mutex
ChainBecomes(r, store) ==
    /\ db' = store
    /\ utxo_set' = r.st.utxo_set
    /\ height' = r.st.height
    /\ tip_hash' = r.st.tip_hash
    /\ total_issued' = r.st.total_issued
    /\ difficulty' = r.st.difficulty
    /\ block_index' = r.st.block_index
    /\ full_blocks' = r.st.full_blocks
    /\ height_to_hash' = r.st.height_to_hash
    /\ mempool' = r.st.mempool
    /\ next_nonce' = r.st.next_nonce
    /\ recent_block_timestamps' = r.st.recent_block_timestamps
    /\ poisoned' = (r.result = "panic")
    /\ torn' = (torn \/ (r.result = "err" /\ r.st # State))
    /\ UNCHANGED overflow_checks

\* a call made outside the peer loop
BecomesWith(r, store) == ChainBecomes(r, store) /\ UNCHANGED <<net_vars, sync_vars, calc_vars, wire_vars, node_vars, mine_vars>>

\* a call that does not write to the store
Becomes(r) == BecomesWith(r, db)

\* the index has room for the block, or holds it already
Fits(block) ==
    \/ BlockHash(block) \in DOMAIN block_index
    \/ Cardinality(DOMAIN block_index) < MaxBlocks

ApplyBlock ==
    /\ ~poisoned
    /\ \E block \in BlockMenu(State), now \in Clock :
          /\ Fits(block)
          /\ \E r \in {apply_block(State, block, now)} : Becomes(r)

RevertTip ==
    /\ ~poisoned
    /\ \E r \in {revert_tip(State)} : Becomes(r)

Reorganize ==
    /\ ~poisoned
    /\ \E target_hash \in DOMAIN block_index \cup {UnknownHash}, now \in Clock :
          \E r \in {reorganize(State, target_hash, now)} : Becomes(r)

IndexBlock ==
    /\ ~poisoned
    /\ \E block \in SideMenu(State) :
          /\ Fits(block)
          /\ \E r \in {Ok(index_block(State, block))} : Becomes(r)

Next == ApplyBlock \/ RevertTip \/ Reorganize \/ IndexBlock

Spec == Init /\ [][Next]_vars

\* ------------------------------------------------------------ pool behaviour
\* A node with a store: transactions arrive at the pool, blocks built on the
\* tip are applied and the tip is reverted.
Results(set) == \E r \in set : Becomes(r)

AddToMempool ==
    /\ ~poisoned
    /\ \E tx \in PoolTxMenu(State) : Results(add_to_mempool(State, tx))

MineBlock ==
    /\ ~poisoned
    /\ height < MaxPoolHeight
    /\ \E block \in PoolBlockMenu(State), store_ok \in BOOLEAN :
          /\ Fits(block)
          /\ Results({apply_block_stored(State, block, HonestTime, store_ok)})

UndoTip ==
    /\ height > 0
    /\ RevertTip

PoolNext == AddToMempool \/ MineBlock \/ UndoTip

PoolSpec == Init /\ [][PoolNext]_vars

\* ------------------------------------------------------------ proof of work
\* validation.rs 185-215, the compact target as 32 bytes (index 0 first)
difficulty_to_target(compact) ==
    LET exponent == compact \div 16777216
        mantissa == compact % 16777216
        byte_index == saturating_sub(32, exponent)
    IN [i \in 0..31 |->
          IF exponent = 0 \/ exponent > 32 THEN 0
          ELSE IF exponent <= 3
          THEN LET value == mantissa \div (2 ^ (8 * (3 - exponent)))
               IN IF i = 31 THEN value % 256
                  ELSE IF i = 30 THEN (value \div 256) % 256
                  ELSE IF i = 29 THEN (value \div 65536) % 256
                  ELSE 0
          ELSE IF i = byte_index THEN mantissa % 256
          ELSE IF i = byte_index + 1 THEN (mantissa \div 256) % 256
          ELSE IF i = byte_index + 2 THEN (mantissa \div 65536) % 256
          ELSE 0]

\* The 32 bytes of a header's digest.  A symbolic digest has no magnitude;
\* the model lets the nonce, the field a miner varies, decide it: nonce 0
\* gives the smallest digest, any other nonce the largest.
hash_to_u256(header) == [i \in 0..31 |-> IF header.nonce = 0 THEN 0 ELSE 255]

\* [u8; 32] comparison: a > b
BytesGreater(a, b) ==
    \E i \in 0..31 : a[i] > b[i] /\ \A j \in 0..(i - 1) : a[j] = b[j]

validate_pow(header) ==
    ~BytesGreater(hash_to_u256(header), difficulty_to_target(header.difficulty_target))

should_adjust_difficulty(h) == h > 0 /\ h % DIFFICULTY_ADJUSTMENT_INTERVAL = 0

\* ------------------------------------------------------------ claims
\* the calls a caller can make in the current state, with their results
Calls == {[block |-> block, r |-> apply_block(State, block, now)] :
            block \in BlockMenu(State), now \in Clock}
Accepted == {c \in Calls : c.r.result = "ok"}

RECURSIVE LinkedToGenesis(_, _)
LinkedToGenesis(hash, h) ==
    /\ hash \in DOMAIN block_index
    /\ h \in DOMAIN height_to_hash
    /\ height_to_hash[h] = hash
    /\ IF h = 0 THEN hash = GenesisHash
       ELSE LinkedToGenesis(block_index[hash].header.prev_hash, h - 1)

\* C1: after successful apply_block, revert_tip, reorganize and index_block
\* calls, tip_hash is a key of block_index, height_to_hash[height] is tip_hash,
\* and the prev_hash links lead from the tip to genesis at height 0 through
\* the height_to_hash entries of the heights in between.
C1_ChainLinked ==
    (~poisoned /\ ~torn) => (tip_hash \in DOMAIN block_index /\ LinkedToGenesis(tip_hash, height))

RECURSIVE ReplayMainChain(_, _)
ReplayMainChain(utxos, h) ==
    IF h > height THEN utxos
    ELSE ReplayMainChain(ApplyAll(utxos, full_blocks[height_to_hash[h]].transactions, h, 1), h + 1)

\* C2: after successful calls, the UTXO set is the one obtained from the empty
\* set by applying the transactions of the main-chain blocks
\* height_to_hash[0..height] in order.
C2_UtxoIsReplay ==
    (~poisoned /\ ~torn) =>
        /\ \A h \in 0..height :
              h \in DOMAIN height_to_hash /\ height_to_hash[h] \in DOMAIN full_blocks
        /\ utxo_set = ReplayMainChain(EmptyMap, 0)

Summary(s) == <<s.utxo_set, s.height, s.tip_hash, s.total_issued, s.difficulty>>

\* C3: for every block apply_block accepts, apply_block followed at once by
\* revert_tip restores the UTXO set and (height, tip_hash, total_issued,
\* difficulty).
C3_ApplyRevertRestores ==
    ~poisoned =>
        \A c \in Accepted :
            \A u \in {revert_tip(c.r.st)} :
                u.result = "ok" /\ Summary(u.st) = Summary(State)

\* C4: total_issued never exceeds PUBLIC_ISSUANCE.
C4_IssuanceCapped == total_issued <= PUBLIC_ISSUANCE

\* the cap has been reached and a further block has been accepted on top
C4_Witness ==
    /\ ~poisoned
    /\ height >= 2
    /\ total_issued = PUBLIC_ISSUANCE
    /\ tip_hash \in DOMAIN block_index
    /\ block_index[tip_hash].header.prev_hash \in DOMAIN block_index
    /\ block_index[block_index[tip_hash].header.prev_hash].total_issued = PUBLIC_ISSUANCE

RECURSIVE SumAmounts(_, _)
SumAmounts(utxos, keys) ==
    IF keys = {} THEN 0
    ELSE LET k == CHOOSE x \in keys : TRUE
         IN utxos[k].amount + SumAmounts(utxos, keys \ {k})

\* C5: the amounts of all UTXOs sum to at most FOUNDER_ALLOCATION +
\* total_issued.
C5_ValueConserved ==
    ~poisoned => SumAmounts(utxo_set, DOMAIN utxo_set) <= FOUNDER_ALLOCATION + total_issued

\* the inputs of the non-coinbase transactions of a block, as (tx, input) positions
SpendingPositions(block) ==
    {<<i, j>> \in (1..Len(block.transactions)) \X (1..2) :
        /\ ~is_coinbase(block.transactions[i])
        /\ j <= Len(block.transactions[i].inputs)}
PositionOutPoint(block, p) == OutPoint(block.transactions[p[1]].inputs[p[2]])
HasDoubleSpend(block) ==
    \E p, q \in SpendingPositions(block) :
        p # q /\ PositionOutPoint(block, p) = PositionOutPoint(block, q)

\* C6: apply_block fails and leaves the chain state unchanged for every block
\* in which two inputs of non-coinbase transactions reference the same
\* (prev_tx_hash, output_index).
C6_DoubleSpendRejected ==
    ~poisoned =>
        \A c \in Calls :
            HasDoubleSpend(c.block) => (c.r.result = "err" /\ c.r.st = State)

\* C7: apply_block returns an error and changes nothing whenever
\* header.prev_hash differs from tip_hash, at every height.
C7_WrongParentRejected ==
    ~poisoned =>
        \A c \in Calls :
            c.block.header.prev_hash # tip_hash => (c.r.result = "err" /\ c.r.st = State)

CoinbasePositions(block) ==
    {i \in 1..Len(block.transactions) : is_coinbase(block.transactions[i])}

\* C8: apply_block accepts a block only if it has exactly one coinbase
\* transaction and that transaction is the first.
C8_OneLeadingCoinbase ==
    ~poisoned =>
        \A c \in Accepted : CoinbasePositions(c.block) = {1}

RECURSIVE SumOver(_, _)
SumOver(f, dom) ==
    IF dom = {} THEN 0
    ELSE LET x == CHOOSE x \in dom : TRUE IN f[x] + SumOver(f, dom \ {x})

CoinbaseTotal(block) ==
    SumOver([i \in CoinbasePositions(block) |-> SumSeq(OutputAmounts(block.transactions[i]))],
            CoinbasePositions(block))
\* the value of the distinct UTXOs the block spends, less what its
\* non-coinbase transactions pay out
BlockFees(block) ==
    LET spent == {PositionOutPoint(block, p) : p \in SpendingPositions(block)} \cap DOMAIN utxo_set
        payers == (1..Len(block.transactions)) \ CoinbasePositions(block)
    IN SumAmounts(utxo_set, spent)
       - SumOver([i \in payers |-> SumSeq(OutputAmounts(block.transactions[i]))], payers)

\* C9: for every accepted block the coinbase outputs total at most
\* calculate_block_reward(height + 1, total_issued) plus the fees of the
\* block.
C9_CoinbaseBounded ==
    ~poisoned =>
        \A c \in Accepted :
            CoinbaseTotal(c.block)
                <= calculate_block_reward(Wrap(height + 1), total_issued) + BlockFees(c.block)

\* C10: apply_block accepts a block only if its difficulty_target is the
\* expected one (the parent's, away from the retarget heights) and its hash
\* satisfies proof of work for that target; so the difficulty field keeps
\* the expected value.
C10_TargetAndWorkChecked ==
    (~poisoned /\ ~should_adjust_difficulty(Wrap(height + 1))) =>
        \A c \in Accepted :
            /\ c.block.header.difficulty_target = difficulty
            /\ validate_pow(c.block.header)

\* the block with the chain id of another network in its header
Foreign(block) == [block EXCEPT !.header.chain_id = OtherChainId]

\* C11: apply_block returns the "invalid chain_id" error and leaves the
\* chain state unchanged for every block whose header chain_id is not
\* CHAIN_ID, whatever else the block holds.
C11_ForeignChainRejected ==
    ~poisoned =>
        \A block \in BlockMenu(State), now \in Clock :
            \A r \in {apply_block(State, Foreign(block), now)} :
                /\ r.result = "err"
                /\ r.err = "Block has invalid chain_id"
                /\ r.st = State

\* a block is refused on a chain of height 1 or more for its chain id
\* alone: with CHAIN_ID in its header it is accepted
C11_Witness ==
    /\ ~poisoned
    /\ height >= 1
    /\ \E block \in BlockMenu(State), now \in Clock :
          /\ block.header.chain_id = CHAIN_ID
          /\ apply_block(State, block, now).result = "ok"
          /\ apply_block(State, Foreign(block), now).result = "err"

\* ------------------------------------------------------------ timestamps
\* A chain that grows by honest blocks whose timestamps vary, long enough
\* for the window of MAX_TIMESTAMPS timestamps to fill and slide.
TimeChoices == {EarlyTime, HonestTime}

TimedBlock(s, timestamp) ==
    LET txs == <<coinbase(calculate_block_reward(Wrap(s.height + 1), s.total_issued), MinerPkh)>>
    IN Block([HonestHeader(s.tip_hash, txs) EXCEPT !.timestamp = timestamp], txs)

ExtendChain ==
    /\ ~poisoned
    /\ height < MaxTimedBlocks
    /\ \E timestamp \in TimeChoices, now \in Clock :
          \E r \in {apply_block(State, TimedBlock(State, timestamp), now)} : Becomes(r)

TimeNext == ExtendChain

TimeSpec == Init /\ [][TimeNext]_vars

\* the timestamps a block is probed with, and the outcome of each probe
TimeProbes == 0..(FutureTime + 1)
TimedCalls ==
    {[timestamp |-> t, now |-> now, r |-> apply_block(State, TimedBlock(State, t), now)] :
        t \in TimeProbes, now \in Clock}

\* the upper median of a non-empty sequence of timestamps: the element with
\* at most half of the entries below it and more than half at or below it
MedianOf(q) ==
    CHOOSE m \in {q[i] : i \in 1..Len(q)} :
        /\ Cardinality({i \in 1..Len(q) : q[i] < m}) <= Len(q) \div 2
        /\ Cardinality({i \in 1..Len(q) : q[i] <= m}) > Len(q) \div 2

\* C12 (as stated): apply_block accepts a block only if its timestamp is at
\* most wall-clock + 2 hours and, once 11 timestamps are tracked, at least
\* their median minus 1 hour; with fewer than 11 tracked no block is refused
\* for an old timestamp.
C12_FloorOnlyAtEleven ==
    ~poisoned =>
        \A c \in TimedCalls :
            /\ c.r.result = "ok" =>
                  /\ c.timestamp <= c.now + MAX_FUTURE_TIME
                  /\ Len(recent_block_timestamps) = MAX_TIMESTAMPS =>
                        c.timestamp + MIN_PAST_TIME >= MedianOf(recent_block_timestamps)
            /\ Len(recent_block_timestamps) < MAX_TIMESTAMPS => c.r.err # "timestamp too old"

\* C12 (amended): apply_block accepts a block only if its timestamp is at
\* most wall-clock + 2 hours and, as soon as one timestamp is tracked, at
\* least the upper median of the tracked timestamps (the last 11 at most)
\* minus 1 hour; the lower bound is skipped only while none is tracked.
C12_TimestampWindow ==
    ~poisoned =>
        \A c \in TimedCalls :
            c.r.result = "ok" =>
                /\ c.timestamp <= c.now + MAX_FUTURE_TIME
                /\ recent_block_timestamps # <<>> =>
                      c.timestamp + MIN_PAST_TIME >= MedianOf(recent_block_timestamps)

\* the window is full and has slid, one probe is refused as too old and
\* another is accepted
C12_Witness ==
    /\ ~poisoned
    /\ height > MAX_TIMESTAMPS
    /\ Len(recent_block_timestamps) = MAX_TIMESTAMPS
    /\ \E c \in TimedCalls : c.r.err = "timestamp too old"
    /\ \E c \in TimedCalls : c.r.result = "ok"

\* ------------------------------------------------------------ pool claims
\* the fields an error of apply_block is said to leave alone
Guarded(s) ==
    <<s.utxo_set, s.height, s.tip_hash, s.total_issued, s.difficulty, s.block_index,
      s.height_to_hash, s.recent_block_timestamps, s.mempool, s.next_nonce>>

\* apply_block on a node with a store, for every block offered and either
\* outcome of the write
StoredCalls ==
    {[block |-> block, store_ok |-> store_ok,
      r |-> apply_block_stored(State, block, HonestTime, store_ok)] :
        block \in PoolBlockMenu(State) \cup BlockMenu(State), store_ok \in BOOLEAN}

\* C13: an apply_block that returns an error, from a validation step or from
\* a failure of the persistent store, leaves utxo_set, height, tip_hash,
\* total_issued, difficulty, block_index, height_to_hash, the recent
\* timestamps, mempool and next_nonce as they were before the call.
C13_ErrorLeavesState ==
    ~poisoned =>
        \A c \in StoredCalls : c.r.result = "err" => Guarded(c.r.st) = Guarded(State)

\* add_to_mempool in the present state, for every transaction offered and
\* every outcome the iteration order of the pool allows
PoolCalls ==
    UNION {{[tx |-> tx, r |-> r] : r \in add_to_mempool(State, tx)} : tx \in PoolTxMenu(State)}

\* C14: an add_to_mempool that returns an error, at whichever step, leaves
\* mempool and next_nonce exactly as before the call: no transaction has
\* been removed, replaced or evicted.
C14_RejectionLeavesPool ==
    ~poisoned =>
        \A c \in PoolCalls :
            c.r.result = "err" => (c.r.st.mempool = mempool /\ c.r.st.next_nonce = next_nonce)

\* C15: in every reachable state, those reached through revert_tip
\* included, every input of every mempool transaction references a UTXO of
\* utxo_set and the transaction's input value is at least its output value.
C15_PoolIsSpendable ==
    ~poisoned =>
        \A h \in DOMAIN mempool :
            /\ \A i \in 1..Len(mempool[h].inputs) : OutPoint(mempool[h].inputs[i]) \in DOMAIN utxo_set
            /\ SumSeq(InputAmounts(mempool[h], utxo_set)) >= SumSeq(OutputAmounts(mempool[h]))

\* C16: in every reachable state the serialised sizes of the mempool
\* transactions sum to at most MAX_MEMPOOL_BYTES, whatever admissions and
\* block applications led there.
C16_PoolWithinCap == mempool_bytes(State) <= MAX_MEMPOOL_BYTES

\* the pool is full and an admission makes room by evicting a transaction
\* that the new one does not replace
C16_Witness ==
    /\ ~poisoned
    /\ mempool_bytes(State) = MAX_MEMPOOL_BYTES
    /\ \E c \in PoolCalls :
          /\ c.r.result = "ok"
          /\ SameSenderAndNonce(State, c.tx) = {}
          /\ \E h \in DOMAIN mempool : h \notin DOMAIN c.r.st.mempool
          /\ mempool_bytes(c.r.st) = MAX_MEMPOOL_BYTES

\* the outpoints a transaction spends
Spends(tx) == {OutPoint(tx.inputs[i]) : i \in 1..Len(tx.inputs)}

\* C17: no two distinct mempool transactions spend the same
\* (prev_tx_hash, output_index); a transaction that spends an output already
\* spent by another mempool transaction is admitted only as the replacement
\* that removes that other transaction.
C17_NoSharedInput ==
    ~poisoned =>
        /\ \A h \in DOMAIN mempool, g \in DOMAIN mempool :
              h # g => Spends(mempool[h]) \cap Spends(mempool[g]) = {}
        /\ \A c \in PoolCalls :
              c.r.result = "ok" =>
                  \A h \in DOMAIN mempool :
                      Spends(mempool[h]) \cap Spends(c.tx) # {} =>
                          /\ h \in SameSenderAndNonce(State, c.tx)
                          /\ h \notin DOMAIN c.r.st.mempool

\* two transactions are in the pool, one offered transaction that spends
\* what a pool transaction spends is refused as a double spend, and another
\* is admitted in place of the transaction it conflicts with
C17_Witness ==
    /\ ~poisoned
    /\ Cardinality(DOMAIN mempool) = 2
    /\ \E c \in PoolCalls :
          c.r.err = "Transaction double-spends an existing mempool transaction"
    /\ \E c \in PoolCalls :
          /\ c.r.result = "ok"
          /\ \E h \in DOMAIN mempool :
                /\ Spends(mempool[h]) \cap Spends(c.tx) # {}
                /\ h \notin DOMAIN c.r.st.mempool

\* next_nonce[sender], 0 when absent
Expected(sender) == IF sender \in DOMAIN next_nonce THEN next_nonce[sender] ELSE 0

\* the refusals of the steps that come before the nonce step
EarlierRefusals ==
    {"Transaction already in mempool", "Coinbase transaction cannot be added to mempool",
     "Invalid signature", "Insufficient input", "Transaction fee too low"}

\* the pool holds no transaction of the sender of tx with the nonce of tx
ReplacesNothing(tx) ==
    ~\E h \in DOMAIN mempool :
        /\ mempool[h].inputs # <<>>
        /\ mempool[h].inputs[1].public_key = tx.inputs[1].public_key
        /\ mempool[h].nonce = tx.nonce

\* C18: with sender the hash of the first input's public key and expected
\* next_nonce[sender] (0 when absent), a transaction that replaces nothing is
\* admitted only when its nonce is the expected one, and next_nonce[sender]
\* is then expected + 1; with a smaller nonce it is refused as stale, with a
\* larger one as a gap (unless an earlier step has refused it already).
C18_NonceInSequence ==
    ~poisoned =>
        \A c \in PoolCalls :
            (c.tx.inputs # <<>> /\ ReplacesNothing(c.tx)) =>
                /\ c.r.result = "ok" =>
                      /\ c.tx.nonce = Expected(Sender(c.tx))
                      /\ Sender(c.tx) \in DOMAIN c.r.st.next_nonce
                      /\ c.r.st.next_nonce[Sender(c.tx)] = Expected(Sender(c.tx)) + 1
                /\ c.tx.nonce < Expected(Sender(c.tx)) =>
                      c.r.err \in EarlierRefusals \cup {"Transaction nonce is too old"}
                /\ c.tx.nonce > Expected(Sender(c.tx)) =>
                      c.r.err \in EarlierRefusals \cup {"Transaction nonce gap"}

\* one sender is past nonce 0 with nothing in the pool: its nonce 0 is
\* refused as stale and its expected nonce admitted; another sender's
\* nonce is refused as a gap
C18_Witness ==
    /\ ~poisoned
    /\ \E c \in PoolCalls : c.r.err = "Transaction nonce is too old"
    /\ \E c \in PoolCalls : c.r.err = "Transaction nonce gap"
    /\ \E c \in PoolCalls :
          /\ c.tx.inputs # <<>>
          /\ ReplacesNothing(c.tx)
          /\ c.r.result = "ok"
          /\ c.tx.nonce = 1

\* fee per unit of size, the fee being the input value found in utxo_set less
\* the output value
FeeRateOf(tx) ==
    LET paid == SumSeq(InputAmounts(tx, utxo_set)) - SumSeq(OutputAmounts(tx))
    IN (IF paid < 0 THEN 0 ELSE paid) \div (IF tx.inputs = <<>> THEN 1 ELSE Len(tx.inputs))

\* the pool transactions with the sender and the nonce of tx
Replaced(tx) ==
    {h \in DOMAIN mempool :
        /\ mempool[h].inputs # <<>>
        /\ mempool[h].inputs[1].public_key = tx.inputs[1].public_key
        /\ mempool[h].nonce = tx.nonce}

Mined ==
    {c \in {[block |-> block, r |-> apply_block(State, block, HonestTime)] :
                block \in PoolBlockMenu(State)} : c.r.result = "ok"}

BlockTxs(block) == {block.transactions[i] : i \in 1..Len(block.transactions)}

\* the pool transactions a block takes out: those it holds and those that
\* spend what one of its transactions spends
TakenOut(block) ==
    {h \in DOMAIN mempool :
        \/ h \in {TxHash(t) : t \in BlockTxs(block)}
        \/ \E t \in BlockTxs(block) : Spends(t) \cap Spends(mempool[h]) # {}}

\* the senders that lose their last pool transaction to the block
Emptied(block) ==
    {Sender(mempool[h]) : h \in {h \in TakenOut(block) : mempool[h].inputs # <<>>}}
    \ {Sender(mempool[h]) : h \in {h \in DOMAIN mempool \ TakenOut(block) : mempool[h].inputs # <<>>}}

\* C20: after a successful apply_block the pool holds no transaction with
\* the hash of a block transaction and none sharing an input with a block
\* transaction; next_nonce is cleared exactly for the senders of removed
\* transactions with nothing left in the pool; every other pool transaction
\* and next_nonce entry is unchanged.
C20_PoolCleanedByBlock ==
    ~poisoned =>
        \A c \in Mined :
            /\ DOMAIN c.r.st.mempool = DOMAIN mempool \ TakenOut(c.block)
            /\ \A h \in DOMAIN c.r.st.mempool : c.r.st.mempool[h] = mempool[h]
            /\ DOMAIN c.r.st.next_nonce = DOMAIN next_nonce \ Emptied(c.block)
            /\ \A k \in DOMAIN c.r.st.next_nonce : c.r.st.next_nonce[k] = next_nonce[k]

\* the pool holds transactions of two senders: one block mines one of them
\* and clears its sender, another block carries a competing payment and
\* takes the conflicting transaction out; the other transaction stays
C20_Witness ==
    /\ ~poisoned
    /\ Cardinality(DOMAIN mempool) = 2
    /\ \E c \in Mined :
          /\ \E h \in DOMAIN mempool :
                /\ mempool[h] \in BlockTxs(c.block)
                /\ Sender(mempool[h]) \in DOMAIN next_nonce \ DOMAIN c.r.st.next_nonce
          /\ Cardinality(DOMAIN c.r.st.mempool) = 1
    /\ \E c \in Mined :
          \E h \in DOMAIN mempool :
              /\ h \notin {TxHash(t) : t \in BlockTxs(c.block)}
              /\ h \notin DOMAIN c.r.st.mempool

\* ------------------------------------------------------------ reorganizations
\* A chain that grows by honest blocks past MAX_REORG_DEPTH, side blocks
\* indexed on a block of the main chain or on an unknown parent, and
\* reorganizations to a side block or to an unknown block.
SideBlock(prev) ==
    LET txs == <<coinbase(0, MinerPkh)>>
    IN Block([HonestHeader(prev, txs) EXCEPT !.nonce = 1], txs)

Grow ==
    /\ ~poisoned
    /\ height < MaxReorgHeight
    /\ Results({apply_block(State, TimedBlock(State, HonestTime), HonestTime)})

IndexSide ==
    /\ ~poisoned
    /\ Cardinality({h \in DOMAIN block_index : block_index[h].header.nonce = 1}) < MaxSideBlocks
    /\ \E prev \in {height_to_hash[h] : h \in DOMAIN height_to_hash} \cup {UnknownHash} :
          /\ BlockHash(SideBlock(prev)) \notin DOMAIN block_index
          /\ Results({Ok(index_block(State, SideBlock(prev)))})

SwitchChain ==
    /\ ~poisoned
    /\ \E target_hash \in {h \in DOMAIN block_index : block_index[h].header.nonce = 1} \cup {UnknownHash} :
          Results({reorganize(State, target_hash, HonestTime)})

ReorgNext == Grow \/ IndexSide \/ SwitchChain

ReorgSpec == Init /\ [][ReorgNext]_vars

\* reorganize in the present state, for every target offered
ReorgCalls ==
    {[target |-> target, r |-> reorganize(State, target, now)] :
        target \in DOMAIN block_index \cup {UnknownHash}, now \in Clock}

\* the height of the block at which the walk from the target meets the main
\* chain (or ends, at a block of height 0)
CommonHeight(target) == block_index[TraceBack(State, target, <<>>).curr].height

\* C21: reorganize returns an error and changes nothing, no block reverted
\* and none applied, when the height less the common ancestor's height
\* exceeds MAX_REORG_DEPTH, when the common ancestor's height is below a
\* checkpoint height, or when the target is not in block_index.
C21_ReorgLimits ==
    ~poisoned =>
        \A c \in ReorgCalls :
            (\/ c.target \notin DOMAIN block_index
             \/ TraceBack(State, c.target, <<>>).curr \notin DOMAIN block_index
             \/ height - CommonHeight(c.target) > MAX_REORG_DEPTH
             \/ \E checkpoint_height \in CHECKPOINTS : CommonHeight(c.target) < checkpoint_height)
            => (c.r.result = "err" /\ c.r.st = State)

\* the chain is longer than MAX_REORG_DEPTH: a side block on an early block
\* is refused for its depth, an unknown target is refused, and a side block
\* within the depth is reorganized to
C21_Witness ==
    /\ ~poisoned
    /\ height > MAX_REORG_DEPTH
    /\ \E c \in ReorgCalls :
          /\ c.target \in DOMAIN block_index
          /\ height - CommonHeight(c.target) > MAX_REORG_DEPTH
          /\ c.r.result = "err"
    /\ \E c \in ReorgCalls : c.target \notin DOMAIN block_index /\ c.r.result = "err"
    /\ \E c \in ReorgCalls : c.r.result = "ok" /\ c.r.st.tip_hash # tip_hash

\* ------------------------------------------------------------ store behaviour
\* A node with a store: blocks are applied on the tip with a write that may
\* fail, the tip is reverted, side blocks are indexed and reorganized to.
StoreBlockMenu(s, prev) ==
    LET r == calculate_block_reward(Wrap(s.height + 1), s.total_issued)
        lists == {<<coinbase(r, PubkeyHash(key))>> : key \in Keys}
                 \cup {<<coinbase(r + 1, MinerPkh), Spend(s, k, 1, "bob")>> :
                         k \in {j \in Spendable(s) : s.utxo_set[j].amount >= 1}}
    IN {Block(HonestHeader(prev, txs), txs) : txs \in lists}

StoreFits(block) ==
    \/ BlockHash(block) \in DOMAIN block_index
    \/ Cardinality(DOMAIN block_index) < MaxStoreBlocks

StoreBlock ==
    /\ ~poisoned
    /\ \E block \in StoreBlockMenu(State, tip_hash), fail_at \in StoreWrites \cup {"none"} :
          /\ StoreFits(block)
          /\ \E a \in {apply_block_db(State, db, block, HonestTime, fail_at)} :
                BecomesWith(a.r, a.store)

StoreIndex ==
    /\ ~poisoned
    /\ \E prev \in {height_to_hash[h] : h \in DOMAIN height_to_hash} :
          \E block \in StoreBlockMenu(State, prev) :
              /\ StoreFits(block)
              /\ Results({Ok(index_block(State, block))})

StoreSwitch ==
    /\ ~poisoned
    /\ \E target_hash \in DOMAIN block_index :
          \E a \in {reorganize_db(State, db, target_hash, HonestTime)} : BecomesWith(a.r, a.store)

StoreNext == StoreBlock \/ UndoTip \/ StoreIndex \/ StoreSwitch

StoreSpec == Init /\ [][StoreNext]_vars

\* the store agrees with the state st on the UTXO set and the metadata
CaughtUp(store, st) ==
    /\ store.utxos = st.utxo_set
    /\ store.tip_hash = st.tip_hash
    /\ store.height = st.height
    /\ store.total_issued = st.total_issued

\* C22: whenever apply_block returns success on a node with a store, the
\* applies of a reorganization included, the stored UTXO set and metadata
\* equal the utxo_set, tip_hash, height and total_issued in memory.
C22_StoreCaughtUp ==
    ~poisoned =>
        /\ \A block \in StoreBlockMenu(State, tip_hash) :
              \A a \in {apply_block_db(State, db, block, HonestTime, "none")} :
                  a.r.result = "ok" => CaughtUp(a.store, a.r.st)
        /\ \A target_hash \in DOMAIN block_index :
              \A a \in {reorganize_db(State, db, target_hash, HonestTime)} :
                  (a.r.result = "ok" /\ a.r.st.tip_hash # tip_hash /\ a.r.st.tip_hash = target_hash
                   /\ TraceBack(State, target_hash, <<>>).chain # <<>>)
                  => CaughtUp(a.store, a.r.st)

\* ------------------------------------------------------------ peer manager
\* u32, scaled
U32_MAX == 150
\* the score at which a peer is banned
BAN_SCORE == 100
\* the failed attempts from which a peer is no longer dialled
MAX_FAILED_ATTEMPTS == 5
\* PeerManager::new(max_connections), scaled
max_connections == 2
\* failed attempts the behaviour counts up to
MaxFailedAttempts == 5

Addrs == {"a1", "a2"}
Points == {50, 100}
Versions == {1}
BestHeights == {1}
Counts == 0..2

saturating_add_u32(a, b) == Min(a + b, U32_MAX)

PeerInfo(addr) ==
    [addr |-> addr, state |-> "Disconnected", failed_attempts |-> 0,
     best_height |-> 0, version |-> 0, misbehavior_score |-> 0]

add_misbehavior(peer, points) ==
    LET score == saturating_add_u32(peer.misbehavior_score, points)
    IN [peer EXCEPT !.misbehavior_score = score,
                    !.state = IF score >= BAN_SCORE THEN "Banned" ELSE @]

should_ban(peer) == peer.misbehavior_score >= BAN_SCORE

Manager == [peers |-> peers, connected |-> connected]

add_peer(pm, addr) ==
    IF addr \notin DOMAIN pm.peers
    THEN [pm EXCEPT !.peers = MapPut(@, addr, PeerInfo(addr))]
    ELSE pm

peer_connected(pm, addr, version, best_height) ==
    IF addr \in DOMAIN pm.peers
    THEN [pm EXCEPT !.peers[addr].state = "Connected",
                    !.peers[addr].version = version,
                    !.peers[addr].best_height = best_height,
                    !.peers[addr].failed_attempts = 0,
                    !.connected = @ \cup {addr}]
    ELSE pm

peer_disconnected(pm, addr) ==
    LET left == [pm EXCEPT !.connected = @ \ {addr}]
    IN IF addr \in DOMAIN pm.peers
       THEN [left EXCEPT !.peers[addr].state = "Disconnected"]
       ELSE left

connection_failed(pm, addr) ==
    IF addr \in DOMAIN pm.peers
    THEN [pm EXCEPT !.peers[addr].state = "Disconnected",
                    !.peers[addr].failed_attempts = @ + 1]
    ELSE pm

ban_peer(pm, addr) ==
    LET left == [pm EXCEPT !.connected = @ \ {addr}]
    IN IF addr \in DOMAIN pm.peers
       THEN [left EXCEPT !.peers[addr].state = "Banned",
                         !.peers[addr].misbehavior_score = BAN_SCORE]
       ELSE left

report_misbehavior(pm, addr, points) ==
    IF addr \in DOMAIN pm.peers
    THEN LET peer == add_misbehavior(pm.peers[addr], points)
         IN [pm EXCEPT !.peers[addr] = peer,
                       !.connected = IF should_ban(peer) THEN @ \ {addr} ELSE @]
    ELSE pm

\* timed_out: the addresses whose last_seen lies further back than the timeout
remove_stale_peers(pm, timed_out) ==
    LET stale == {a \in DOMAIN pm.peers :
                     pm.peers[a].state = "Disconnected" /\ a \in timed_out}
    IN [pm EXCEPT !.peers = [a \in DOMAIN pm.peers \ stale |-> pm.peers[a]]]

\* the address sets get_peers_to_connect may return: the map is walked in
\* an arbitrary order and the first `count` eligible peers are taken
get_peers_to_connect(pm, count) ==
    IF Cardinality(pm.connected) >= max_connections THEN {{}}
    ELSE LET remaining == max_connections - Cardinality(pm.connected)
             eligible == {a \in DOMAIN pm.peers :
                             /\ pm.peers[a].state = "Disconnected"
                             /\ pm.peers[a].failed_attempts < MAX_FAILED_ATTEMPTS
                             /\ ~should_ban(pm.peers[a])}
             taken == Min(Min(count, remaining), Cardinality(eligible))
         IN {chosen \in SUBSET eligible : Cardinality(chosen) = taken}

ManagerBecomes(pm) ==
    /\ peers' = pm.peers
    /\ connected' = pm.connected
    /\ UNCHANGED <<chain_vars, sync_vars, calc_vars, wire_vars, node_vars, mine_vars>>

AddPeer == \E addr \in Addrs : ManagerBecomes(add_peer(Manager, addr))

PeerConnected ==
    \E addr \in Addrs, version \in Versions, best_height \in BestHeights :
        ManagerBecomes(peer_connected(Manager, addr, version, best_height))

PeerDisconnected == \E addr \in Addrs : ManagerBecomes(peer_disconnected(Manager, addr))

ConnectionFailed ==
    \E addr \in Addrs :
        /\ addr \in DOMAIN peers => peers[addr].failed_attempts < MaxFailedAttempts
        /\ ManagerBecomes(connection_failed(Manager, addr))

BanPeer == \E addr \in Addrs : ManagerBecomes(ban_peer(Manager, addr))

ReportMisbehavior ==
    \E addr \in Addrs, points \in Points :
        ManagerBecomes(report_misbehavior(Manager, addr, points))

RemoveStalePeers ==
    \E timed_out \in SUBSET Addrs : ManagerBecomes(remove_stale_peers(Manager, timed_out))

PeerNext ==
    \/ AddPeer
    \/ PeerConnected
    \/ PeerDisconnected
    \/ ConnectionFailed
    \/ BanPeer
    \/ ReportMisbehavior
    \/ RemoveStalePeers

PeerSpec == Init /\ [][PeerNext]_vars

\* C23: a peer whose misbehavior score has reached 100 is not Connected,
\* is not in the connected set and is in no answer of get_peers_to_connect,
\* whatever PeerManager operations have run since.
C23_BannedForGood ==
    \A addr \in DOMAIN peers :
        should_ban(peers[addr]) =>
            /\ peers[addr].state # "Connected"
            /\ addr \notin connected
            /\ \A count \in Counts : \A chosen \in get_peers_to_connect(Manager, count) :
                  addr \notin chosen

\* ------------------------------------------------------------ peer message loop
\* the hashes an Inv reply collects past its start height, scaled
INV_LIMIT == 1
\* the headers a Headers reply collects past its start height, scaled
HEADERS_LIMIT == 2
\* locator entries after which build_block_locator doubles its step
LOCATOR_DENSE == 10
\* height the chain of the message loop grows to
MaxSyncHeight == 4

\* Option::None
None == [none |-> TRUE]

get_block_header(s, hash) ==
    IF hash \in DOMAIN s.block_index THEN s.block_index[hash].header ELSE None

get_block_hash_at_height(s, h) ==
    IF h \in DOMAIN s.height_to_hash THEN s.height_to_hash[h] ELSE None

\* p2p/protocol.rs build_block_locator, the loop from `height` down
RECURSIVE LocatorWalk(_, _, _, _)
LocatorWalk(s, h, step, locator) ==
    IF h <= 0 THEN locator
    ELSE LET hash == get_block_hash_at_height(s, h)
             pushed == IF hash # None THEN Append(locator, hash) ELSE locator
         IN IF h < step THEN pushed
            ELSE LocatorWalk(s, h - step, IF Len(pushed) > LOCATOR_DENSE THEN step * 2 ELSE step, pushed)

\* a locator whose step never grows: every main-chain hash from the start down
locator_without_doubling(s, heights) ==
    LET start == IF heights = <<>> THEN 0 ELSE heights[Len(heights)]
    IN [i \in 1..(start + 1) |-> get_block_hash_at_height(s, start + 1 - i)]

build_block_locator(s, heights) ==
    LET start == IF heights = <<>> THEN 0 ELSE heights[Len(heights)]
        locator == LocatorWalk(s, start, 1, <<>>)
        genesis == get_block_hash_at_height(s, 0)
    IN IF genesis # None /\ (locator = <<>> \/ locator[Len(locator)] # genesis)
       THEN Append(locator, genesis)
       ELSE locator

\* main.rs 633-641: the height after the first locator the index knows
RECURSIVE StartHeight(_, _, _)
StartHeight(s, block_locators, i) ==
    IF i > Len(block_locators) THEN 0
    ELSE IF get_block_height(s, block_locators[i]) # -1
    THEN get_block_height(s, block_locators[i]) + 1
    ELSE StartHeight(s, block_locators, i + 1)

\* main.rs 646-656: the main-chain hashes from h to last, up to the stop hash
RECURSIVE CollectHashes(_, _, _, _, _)
CollectHashes(s, h, last, stop_hash, items) ==
    IF h > last THEN items
    ELSE LET hash == get_block_hash_at_height(s, h)
         IN IF hash = None THEN CollectHashes(s, h + 1, last, stop_hash, items)
            ELSE IF hash = stop_hash THEN Append(items, hash)
            ELSE CollectHashes(s, h + 1, last, stop_hash, Append(items, hash))

GetBlocksItems(s, req) ==
    LET start_height == StartHeight(s, req.block_locators, 1)
    IN CollectHashes(s, start_height, Min(start_height + INV_LIMIT, s.height), req.stop_hash, <<>>)

\* main.rs 678-687: as above, for blocks whose header the index has
GetHeadersItems(s, req) ==
    LET start_height == StartHeight(s, req.block_locators, 1)
        hashes == CollectHashes(s, start_height, Min(start_height + HEADERS_LIMIT, s.height),
                                req.stop_hash, <<>>)
    IN [i \in 1..Len(hashes) |-> get_block_header(s, hashes[i])]

Message(type, body) == [type |-> type, body |-> body]

GetBlocksMessage(block_locators, stop_hash) ==
    [block_locators |-> block_locators, stop_hash |-> stop_hash]

\* main.rs 542-590: what the Block handler does under the lock, and the
\* locator it asks history with
HandleBlockLocked(s, store, block, now) ==
    LET indexed == index_block(s, block)
        block_hash == BlockHash(block)
        peer_height == Max(get_block_height(indexed, block_hash), 0)
    IN IF block.header.prev_hash = indexed.tip_hash
       THEN [a |-> apply_block_db(indexed, store, block, now, "none"), request_missing |-> <<>>]
       ELSE IF peer_height > indexed.height
       THEN LET a == reorganize_db(indexed, store, block_hash, now)
            IN [a |-> a,
                request_missing |->
                    IF a.r.result = "err" /\ get_block_header(a.r.st, block.header.prev_hash) = None
                    THEN <<build_block_locator(a.r.st, <<a.r.st.height>>)>>
                    ELSE <<>>]
       ELSE [a |-> [r |-> Ok(indexed), store |-> store], request_missing |-> <<>>]

SyncBlocks ==
    {TimedBlock(State, HonestTime)}
    \cup {SideBlock(prev) : prev \in {height_to_hash[h] : h \in DOMAIN height_to_hash} \cup {UnknownHash}}

Requests ==
    LET low == {height_to_hash[h] : h \in DOMAIN height_to_hash \cap 0..1}
        side == {h \in DOMAIN block_index : block_index[h].header.nonce = 1}
        locators == {<<a>> : a \in low \cup side \cup {UnknownHash}}
                    \cup {<<UnknownHash, a>> : a \in low}
        stops == {height_to_hash[h] : h \in DOMAIN height_to_hash \cap 2..3} \cup {ZeroHash}
    IN {GetBlocksMessage(l, stop_hash) : l \in locators, stop_hash \in stops}

HandleBlock ==
    /\ ~poisoned
    /\ \E block \in SyncBlocks :
          /\ block.header.nonce = 1 /\ BlockHash(block) \notin DOMAIN block_index
                => Cardinality({h \in DOMAIN block_index : block_index[h].header.nonce = 1}) < MaxSideBlocks
          /\ block.header.nonce = 0 => height < MaxSyncHeight
          /\ \E done \in {HandleBlockLocked(State, db, block, HonestTime)} :
                /\ ChainBecomes(done.a.r, done.a.store)
                /\ handled' = Message("block", block)
                /\ sent' = [i \in 1..Len(done.request_missing) |->
                               Message("getblocks", GetBlocksMessage(done.request_missing[i], ZeroHash))]
                /\ UNCHANGED <<net_vars, node_vars, mine_vars, calc_vars, wire_vars>>

HandleGetBlocks ==
    /\ ~poisoned
    /\ \E req \in Requests :
          /\ handled' = Message("getblocks", req)
          /\ sent' = IF GetBlocksItems(State, req) # <<>>
                      THEN <<Message("inv", GetBlocksItems(State, req))>>
                      ELSE <<>>
          /\ UNCHANGED <<chain_vars, net_vars, node_vars, mine_vars, calc_vars, wire_vars>>

HandleGetHeaders ==
    /\ ~poisoned
    /\ \E req \in Requests :
          /\ handled' = Message("getheaders", req)
          /\ sent' = IF GetHeadersItems(State, req) # <<>>
                      THEN <<Message("headers", GetHeadersItems(State, req))>>
                      ELSE <<>>
          /\ UNCHANGED <<chain_vars, net_vars, node_vars, mine_vars, calc_vars, wire_vars>>

SyncNext == HandleBlock \/ HandleGetBlocks \/ HandleGetHeaders

SyncSpec == Init /\ [][SyncNext]_vars

\* the reply lists main-chain blocks of consecutive heights from the one
\* after the first known locator, and stops at the stop hash if it meets it
InOrderFrom(items, req, at(_)) ==
    LET start_height == StartHeight(State, req.block_locators, 1)
    IN /\ \A i \in 1..Len(items) :
             /\ start_height + i - 1 \in DOMAIN height_to_hash
             /\ items[i] = at(start_height + i - 1)
       /\ \A i \in 1..Len(items) :
             get_block_hash_at_height(State, start_height + i - 1) = req.stop_hash => i = Len(items)

HashAt(h) == get_block_hash_at_height(State, h)
HeaderAt(h) == get_block_header(State, get_block_hash_at_height(State, h))

\* C24: an Inv reply to GetBlocks lists at most 500 hashes and a Headers
\* reply to GetHeaders at most 2000 headers, in increasing main-chain height
\* from the height after the matched locator, ending at stop_hash if met.
C24_RepliesBounded ==
    /\ (handled.type = "getblocks" /\ sent # <<>>) =>
          /\ sent[1].type = "inv"
          /\ Len(sent[1].body) <= INV_LIMIT
          /\ InOrderFrom(sent[1].body, handled.body, HashAt)
    /\ (handled.type = "getheaders" /\ sent # <<>>) =>
          /\ sent[1].type = "headers"
          /\ Len(sent[1].body) <= HEADERS_LIMIT
          /\ InOrderFrom(sent[1].body, handled.body, HeaderAt)

\* C25: whenever the node has handled a Block whose parent is not in
\* block_index, it has sent that peer a GetBlocks whose locators are
\* build_block_locator over its own main chain.
C25_OrphanAsksHistory ==
    (handled.type = "block" /\ handled.body.header.prev_hash \notin DOMAIN block_index) =>
        sent = <<Message("getblocks",
                         GetBlocksMessage(build_block_locator(State, <<height>>), ZeroHash))>>

\* ------------------------------------------------------------ tasks and the mutex
\* The tasks that share the ChainState mutex: the peer message loop, the
\* RPC handler of sendrawtransaction and the mining loop.  A task takes the
\* mutex, runs its calls and drops it; apply_block is two steps, the checks
\* with the mempool eviction (state.rs 226-333) and the rest (335-388).
\* blocks the index of this behaviour may hold, genesis included
MaxNodeBlocks == 4

Tasks == {"peer", "rpc", "miner"}

Idle == [type |-> "none", body |-> None, outcome |-> ""]
Job(type, body) == [type |-> type, body |-> body, outcome |-> ""]

\* Mutex::lock: the caller goes on when nobody holds the mutex
LockIgnored(holder) == TRUE
LockFree(holder) == holder = "none"

\* state.rs 680-693: the pool ordered by fee rate, highest first; equal
\* rates come in the order of the map
get_mempool_transactions(s) ==
    LET n == Cardinality(DOMAIN s.mempool)
    IN {[i \in 1..n |-> s.mempool[q[i]]] :
          q \in {q \in [1..n -> DOMAIN s.mempool] :
                    /\ \A i, j \in 1..n : i # j => q[i] # q[j]
                    /\ \A i \in 1..n : \A j \in 1..n :
                          i < j => PoolFeeRate(s, s.mempool[q[i]]) >= PoolFeeRate(s, s.mempool[q[j]])}}

\* miner.rs 58-94
assemble_block(s, transactions) ==
    LET reward == calculate_block_reward(Wrap(s.height + 1), s.total_issued)
        all_txs == <<coinbase(reward, MinerPkh)>> \o transactions
    IN Block(BlockHeader(CHAIN_ID, s.tip_hash, compute_merkle_root(TxHashes(all_txs)), HonestTime,
                         s.difficulty, 0),
             all_txs)

NodeBlocks ==
    {TimedBlock(State, HonestTime)}
    \cup {SideBlock(prev) : prev \in {h \in DOMAIN block_index : block_index[h].height = 0 \/ block_index[h].header.nonce = 1}}

NodeTxMenu ==
    {Spend(State, k, 1, "bob") : k \in {j \in Spendable(State) : State.utxo_set[j].amount >= 1}}
    \cup {Dangling}

Goes(t, label) == pc' = [pc EXCEPT ![t] = label]
Outcome(t, outcome) == work' = [work EXCEPT ![t].outcome = outcome]

\* a call on the state made by task t, which holds the guard: a panic
\* unwinds through the guard, which poisons the mutex and drops it
Runs(t, a, label, outcome) ==
    /\ ChainBecomes(a.r, a.store)
    /\ Outcome(t, outcome)
    /\ IF a.r.result = "panic"
       THEN Goes(t, "dead") /\ lock' = (IF lock = t THEN "none" ELSE lock)
       ELSE Goes(t, label) /\ UNCHANGED lock
    /\ UNCHANGED <<net_vars, sync_vars, calc_vars, wire_vars, mine_vars, broadcasts, stop_signal>>

\* chain_state.lock().unwrap()
Lock(t, label) ==
    /\ pc[t] = "lock"
    /\ LockFree(lock)
    /\ IF poisoned
       THEN Goes(t, "dead") /\ UNCHANGED lock
       ELSE Goes(t, label) /\ lock' = t
    /\ UNCHANGED <<chain_vars, net_vars, sync_vars, calc_vars, wire_vars, mine_vars, work, broadcasts, stop_signal>>

\* the guard goes out of scope
Unlock(t, label) ==
    /\ pc[t] = "unlock"
    /\ lock' = (IF lock = t THEN "none" ELSE lock)
    /\ Goes(t, label)
    /\ UNCHANGED <<chain_vars, net_vars, sync_vars, calc_vars, wire_vars, mine_vars, work, broadcasts, stop_signal>>

\* apply_block up to the mempool eviction
Evicts(t) ==
    LET a == apply_block_db(State, db, work[t].body, HonestTime, "none")
    IN IF a.r.result = "ok"
       THEN Runs(t, [r |-> Ok([State EXCEPT !.mempool = a.r.st.mempool,
                                               !.next_nonce = a.r.st.next_nonce]),
                      store |-> db], "commit", "")
       ELSE Runs(t, a, "unlock", "failed")

\* apply_block from the UTXO changes on
Commits(t, label) ==
    /\ pc[t] = "commit"
    /\ \E a \in {apply_block_db(State, db, work[t].body, HonestTime, "none")} :
          IF a.r.result = "ok" THEN Runs(t, a, label, "ok") ELSE Runs(t, a, "unlock", "failed")

\* add_to_mempool
Adds(t, label) ==
    /\ pc[t] = "add"
    /\ \E r \in add_to_mempool(State, work[t].body) :
          IF r.result = "ok"
          THEN Runs(t, [r |-> r, store |-> db], label, "ok")
          ELSE Runs(t, [r |-> r, store |-> db], "unlock", "failed")

\* peer_manager.lock().unwrap().broadcast_message(..)
Relays(t, label, stops) ==
    /\ pc[t] = "relay"
    /\ broadcasts' = broadcasts \cup {[by |-> t, type |-> work[t].type, locked |-> lock = t]}
    /\ stop_signal' = (stop_signal \/ stops)
    /\ Goes(t, label)
    /\ UNCHANGED <<chain_vars, net_vars, sync_vars, calc_vars, wire_vars, mine_vars, lock, work>>

\* main.rs 470-473: the peer loop reads a Block or a Tx
PeerReceive ==
    /\ pc["peer"] = "idle"
    /\ \E job \in {Job("block", b) : b \in {b \in NodeBlocks :
                            \/ BlockHash(b) \in DOMAIN block_index
                            \/ Cardinality(DOMAIN block_index) < MaxNodeBlocks}}
                  \cup {Job("tx", tx) : tx \in NodeTxMenu} :
          work' = [work EXCEPT !["peer"] = job]
    /\ Goes("peer", "lock")
    /\ UNCHANGED <<chain_vars, net_vars, sync_vars, calc_vars, wire_vars, mine_vars, lock, broadcasts, stop_signal>>

PeerLock == Lock("peer", IF work["peer"].type = "block" THEN "index" ELSE "add")

\* main.rs 548
PeerIndex ==
    /\ pc["peer"] = "index"
    /\ Runs("peer", [r |-> Ok(index_block(State, work["peer"].body)), store |-> db], "connect", "")

\* main.rs 550-581, apply_block up to the mempool eviction
PeerConnect ==
    /\ pc["peer"] = "connect"
    /\ LET block == work["peer"].body
           peer_height == Max(get_block_height(State, BlockHash(block)), 0)
       IN IF block.header.prev_hash = tip_hash THEN Evicts("peer")
          ELSE IF peer_height > height
          THEN \E a \in {reorganize_db(State, db, BlockHash(block), HonestTime)} :
                  Runs("peer", a, "unlock",
                        IF a.r.result = "ok" THEN "ok"
                        ELSE IF get_block_header(a.r.st, block.header.prev_hash) = None THEN "missing"
                        ELSE "failed")
          ELSE Runs("peer", [r |-> Ok(State), store |-> db], "unlock", "failed")

PeerCommit == Commits("peer", "unlock")

\* main.rs 611
PeerAdd == Adds("peer", "unlock")

\* main.rs 582 and 618: the block that holds the guard ends
PeerUnlock == Unlock("peer", IF work["peer"].outcome = "ok" THEN "relay" ELSE "idle")

\* main.rs 592-606 and 620-628
PeerRelay == Relays("peer", "idle", work["peer"].type = "block")

\* rpc/methods.rs 396-412
RpcReceive ==
    /\ pc["rpc"] = "idle"
    /\ \E tx \in NodeTxMenu : work' = [work EXCEPT !["rpc"] = Job("tx", tx)]
    /\ Goes("rpc", "lock")
    /\ UNCHANGED <<chain_vars, net_vars, sync_vars, calc_vars, wire_vars, mine_vars, lock, broadcasts, stop_signal>>

\* rpc/methods.rs 415
RpcLock == Lock("rpc", "add")

\* rpc/methods.rs 416
RpcAdd == Adds("rpc", "relay")

\* rpc/methods.rs 421-422
RpcRelay == Relays("rpc", "unlock", FALSE)

\* rpc/methods.rs 431: `chain` lives to the end of the function
RpcUnlock == Unlock("rpc", "idle")

\* main.rs 275-283: the template is read under the mutex, the stop signal cleared
MinerTemplate ==
    /\ pc["miner"] = "idle"
    /\ LockFree(lock) /\ ~poisoned
    /\ Cardinality(DOMAIN block_index) < MaxNodeBlocks
    /\ \E txs \in get_mempool_transactions(State) :
          work' = [work EXCEPT !["miner"] = Job("block", assemble_block(State, txs))]
    /\ stop_signal' = FALSE
    /\ Goes("miner", "mine")
    /\ UNCHANGED <<chain_vars, net_vars, sync_vars, calc_vars, wire_vars, mine_vars, lock, broadcasts>>

\* main.rs 305-312: a worker has sent a block, the others are told to stop;
\* or all workers were interrupted
MinerFound ==
    /\ pc["miner"] = "mine"
    /\ \/ stop_signal' = TRUE /\ Goes("miner", "lock") /\ UNCHANGED work
       \/ stop_signal /\ UNCHANGED stop_signal /\ Goes("miner", "idle")
                      /\ work' = [work EXCEPT !["miner"] = Idle]
    /\ UNCHANGED <<chain_vars, net_vars, sync_vars, calc_vars, wire_vars, mine_vars, lock, broadcasts>>

\* main.rs 315
MinerLock == Lock("miner", "connect")

\* main.rs 317, apply_block up to the mempool eviction
MinerConnect == pc["miner"] = "connect" /\ Evicts("miner")

MinerCommit == Commits("miner", "relay")

\* main.rs 339-342
MinerRelay == Relays("miner", "unlock", FALSE)

\* main.rs 319 and 343
MinerUnlock == Unlock("miner", "idle")

NodeNext ==
    \/ PeerReceive \/ PeerLock \/ PeerIndex \/ PeerConnect \/ PeerCommit
    \/ PeerAdd \/ PeerUnlock \/ PeerRelay
    \/ RpcReceive \/ RpcLock \/ RpcAdd \/ RpcRelay \/ RpcUnlock
    \/ MinerTemplate \/ MinerFound \/ MinerLock \/ MinerConnect \/ MinerCommit
    \/ MinerRelay \/ MinerUnlock

NodeSpec == Init /\ [][NodeNext]_vars

\* C27: no message is enqueued to the peers while the ChainState mutex is
\* held: every broadcast_message is made after the task dropped the guard.
C27_BroadcastUnlocked == \A b \in broadcasts : ~b.locked

\* the places of a task inside apply_block, reorganize or add_to_mempool
InOperation == {"index", "connect", "commit", "add"}

\* C28: every apply_block (with its mempool eviction), reorganize and
\* add_to_mempool runs entirely under the one ChainState mutex, so whole
\* operations are totally ordered and no mempool admission sees a block
\* half applied.
C28_WholeOperations ==
    /\ \A t \in Tasks : pc[t] \in InOperation => lock = t
    /\ \A t \in Tasks, u \in Tasks : (t # u /\ pc[t] \in InOperation) => pc[u] \notin InOperation
    /\ \A t \in Tasks : pc[t] = "add" => \A u \in Tasks : pc[u] # "commit"

\* the miner is between the eviction and the UTXO changes of a block that
\* carries a pool transaction while the RPC task waits with a transaction
C28_Witness ==
    /\ pc["miner"] = "commit"
    /\ Len(work["miner"].body.transactions) > 1
    /\ mempool = EmptyMap
    /\ pc["rpc"] = "lock"
    /\ pc["peer"] = "lock"

\* ------------------------------------------------------------ mining loop and workers
\* The mining task of main.rs 254-348 step by step, with the blocking
\* workers it spawns each round; what it does under the ChainState mutex
\* is one step here.
\* available_parallelism()
NumThreads == 2
\* rounds of the mining loop
MaxRounds == 2
\* nonces a worker tries past its first
MaxWorkerSteps == 1
\* height up to which the peer sends blocks
MaxMineHeight == 2

WorkerIds(r) == {<<r, i>> : i \in 0..(NumThreads - 1)}

\* main.rs 292
StartNonce(i) == i * (U64_MAX \div NumThreads)

\* `told`: stop() has run since the worker started
Worker(block) == [state |-> "mining", block |-> block, told |-> FALSE]
Returned == [state |-> "returned", block |-> None, told |-> FALSE]

Told(ws) ==
    [w \in DOMAIN ws |-> IF ws[w].state = "mining" THEN [ws[w] EXCEPT !.told = TRUE] ELSE ws[w]]

\* miner.rs 103-127, one pass of the loop: whether a hash meets the target
\* is not decided by the model, so a pass may find the block or go on
mine_block_pass(block, stop) ==
    IF stop THEN {[result |-> "Interrupted", block |-> block]}
    ELSE {[result |-> "Success", block |-> block],
          [result |-> "continue", block |-> [block EXCEPT !.header.nonce = Wrap(@ + 1)]]}

MineStep(label) ==
    /\ Goes("miner", label)
    /\ UNCHANGED <<chain_vars, net_vars, sync_vars, calc_vars, wire_vars, lock, broadcasts>>

\* main.rs 275-279
LoopTemplate ==
    /\ pc["miner"] = "idle"
    /\ round < MaxRounds
    /\ LockFree(lock) /\ ~poisoned
    /\ \E txs \in get_mempool_transactions(State) :
          work' = [work EXCEPT !["miner"] = Job("block", assemble_block(State, txs))]
    /\ MineStep("reset")
    /\ UNCHANGED <<stop_signal, mine_vars, calc_vars, wire_vars>>

\* main.rs 283
LoopReset ==
    /\ pc["miner"] = "reset"
    /\ stop_signal' = FALSE
    /\ MineStep("spawn")
    /\ UNCHANGED <<work, mine_vars, calc_vars, wire_vars>>

\* main.rs 282, 286-301
LoopSpawn ==
    /\ pc["miner"] = "spawn"
    /\ round' = round + 1
    /\ results' = <<>>
    /\ workers' = [w \in DOMAIN workers \cup WorkerIds(round + 1) |->
                     IF w \in WorkerIds(round + 1)
                     THEN Worker([work["miner"].body EXCEPT !.header.nonce = StartNonce(w[2])])
                     ELSE workers[w]]
    /\ MineStep("wait")
    /\ UNCHANGED <<work, stop_signal>>

\* main.rs 304-312 and 343-346
LoopRecv ==
    /\ pc["miner"] = "wait"
    /\ \/ /\ results # <<>> /\ Head(results).result = "Success"
          /\ work' = [work EXCEPT !["miner"].body = Head(results).block]
          /\ stop_signal' = TRUE
          /\ workers' = Told(workers)
          /\ results' = <<>>
          /\ MineStep("submit")
          /\ UNCHANGED round
       \/ /\ results # <<>> /\ Head(results).result = "Interrupted"
          /\ results' = Tail(results)
          /\ MineStep("wait")
          /\ UNCHANGED <<work, stop_signal, workers, round>>
       \/ /\ results = <<>>
          /\ \A w \in WorkerIds(round) : workers[w].state = "returned"
          /\ work' = [work EXCEPT !["miner"] = Idle]
          /\ MineStep("idle")
          /\ UNCHANGED <<stop_signal, mine_vars, calc_vars, wire_vars>>

\* main.rs 314-342
LoopSubmit ==
    /\ pc["miner"] = "submit"
    /\ LockFree(lock)
    /\ IF poisoned
       THEN Goes("miner", "dead") /\ UNCHANGED <<chain_vars, broadcasts>>
       ELSE \E a \in {apply_block_db(State, db, work["miner"].body, HonestTime, "none")} :
               /\ ChainBecomes(a.r, a.store)
               /\ Goes("miner", IF a.r.result = "panic" THEN "dead" ELSE "idle")
               /\ broadcasts' = IF a.r.result = "ok"
                                 THEN broadcasts \cup {[by |-> "miner", type |-> "block", locked |-> TRUE]}
                                 ELSE broadcasts
    /\ work' = [work EXCEPT !["miner"] = Idle]
    /\ UNCHANGED <<net_vars, sync_vars, calc_vars, wire_vars, lock, stop_signal, mine_vars>>

\* the closure given to spawn_blocking, main.rs 294-297: one pass of
\* mine_block, and the send when it returns
WorkerPass ==
    \E w \in DOMAIN workers :
        /\ workers[w].state = "mining"
        /\ \E out \in mine_block_pass(workers[w].block, stop_signal) :
              IF out.result = "continue"
              THEN /\ out.block.header.nonce - StartNonce(w[2]) <= MaxWorkerSteps
                   /\ workers' = [workers EXCEPT ![w].block = out.block]
                   /\ UNCHANGED results
              ELSE /\ workers' = [workers EXCEPT ![w] = Returned]
                   /\ results' = IF w[1] = round /\ pc["miner"] = "wait"
                                  THEN Append(results, out)
                                  ELSE results
        /\ UNCHANGED <<chain_vars, net_vars, sync_vars, calc_vars, wire_vars, node_vars, round>>

\* main.rs 542-606 in one step: a peer's block on the tip is applied and
\* the workers are told to stop
PeerBlock ==
    /\ ~poisoned
    /\ LockFree(lock)
    /\ height < MaxMineHeight
    /\ \E done \in {HandleBlockLocked(State, db, TimedBlock(State, HonestTime), HonestTime)} :
          /\ ChainBecomes(done.a.r, done.a.store)
          /\ stop_signal' = (stop_signal \/ done.a.r.result = "ok")
          /\ workers' = IF done.a.r.result = "ok" THEN Told(workers) ELSE workers
          /\ broadcasts' = IF done.a.r.result = "ok"
                            THEN broadcasts \cup {[by |-> "peer", type |-> "block", locked |-> FALSE]}
                            ELSE broadcasts
    /\ UNCHANGED <<net_vars, sync_vars, calc_vars, wire_vars, lock, pc, work, results, round>>

MineNext ==
    \/ LoopTemplate \/ LoopReset \/ LoopSpawn \/ LoopRecv \/ LoopSubmit
    \/ WorkerPass \/ PeerBlock

MineSpec == Init /\ [][MineNext]_vars

\* C26: once the stop flag has been set, every worker that was mining
\* returns at its next pass of the loop, however the mining loop's reset()
\* falls between: no worker goes on searching on the old template.
C26_StopEndsWorkers ==
    [][\A w \in DOMAIN workers :
          (workers[w].state = "mining" /\ workers[w].told /\ workers'[w] # workers[w])
              => workers'[w].state = "returned"]_vars

\* ------------------------------------------------------------------
\* The reward schedule: calculate_block_reward as a function of its
\* arguments, with the decay denominator of the source and the cap scaled
\* so that the products stay within the checker's integers.
\* ------------------------------------------------------------------
SCHEDULE_ISSUANCE == 40000000
SCHEDULE_DECAY_RATE == 1000000
MaxScheduleHeight == 40
NearEnds == 45

\* one reward step of the schedule: remaining / 20000
RewardUnit == SCHEDULE_DECAY_RATE \div INITIAL_REWARD_NUMERATOR

\* amounts already issued: the start, the end, and the places where the reward changes
IssuedPicks ==
    (0 .. NearEnds)
        \cup {SCHEDULE_ISSUANCE - k : k \in 0 .. NearEnds}
        \cup {SCHEDULE_ISSUANCE - m * RewardUnit + d : m \in 1 .. 3, d \in {-1, 0, 1}}

schedule_reward(at_height, total_issued_so_far) ==
    block_reward(at_height, total_issued_so_far, SCHEDULE_ISSUANCE, SCHEDULE_DECAY_RATE)

RewardInit ==
    /\ NodeInit
    /\ retarget = NoCall
    /\ schedule \in {[called |-> FALSE, height |-> h, issued |-> i, reward |-> 0]
                        : h \in {0, 1}, i \in IssuedPicks}

\* calculate_block_reward(height, total_issued_so_far)
CallReward ==
    /\ ~schedule.called
    /\ schedule' = [schedule EXCEPT !.called = TRUE,
                                     !.reward = schedule_reward(schedule.height, schedule.issued)]
    /\ UNCHANGED <<chain_vars, net_vars, sync_vars, node_vars, mine_vars, retarget, wire_vars>>

\* the block at this height is issued its reward and the next height follows
IssueReward ==
    /\ schedule.called
    /\ schedule.height < MaxScheduleHeight
    /\ schedule' = [called |-> FALSE,
                    height |-> schedule.height + 1,
                    issued |-> schedule.issued + schedule.reward,
                    reward |-> 0]
    /\ UNCHANGED <<chain_vars, net_vars, sync_vars, node_vars, mine_vars, retarget, wire_vars>>

RewardNext == CallReward \/ IssueReward

RewardSpec == RewardInit /\ [][RewardNext]_vars

\* C29: at every height from 1 on and every amount issued up to the cap, the
\* reward keeps the total within the cap, is 0 exactly when the cap is
\* reached, is 1 one unit below the cap and does not grow with the amount
\* issued; at height 0 it is 0; repeated issuance never passes the cap.
C29_RewardSchedule ==
    /\ schedule # NoCall => schedule.issued <= SCHEDULE_ISSUANCE
    /\ (schedule # NoCall /\ schedule.called) =>
          LET h == schedule.height
              i == schedule.issued
              r == schedule.reward
          IN /\ h = 0 => r = 0
             /\ h >= 1 =>
                   /\ i + r <= SCHEDULE_ISSUANCE
                   /\ (r = 0) <=> (i = SCHEDULE_ISSUANCE)
                   /\ i = SCHEDULE_ISSUANCE - 1 => r = 1
                   /\ \A j \in IssuedPicks : j >= i => schedule_reward(h, j) <= r

\* after some blocks were issued their rewards, one unit is left and the reward is 1
C29_Witness ==
    /\ schedule # NoCall
    /\ schedule.called
    /\ schedule.height > 1
    /\ schedule.issued = SCHEDULE_ISSUANCE - 1
    /\ schedule.reward = 1

\* ------------------------------------------------------------------
\* Difficulty adjustment: calculate_next_difficulty and the 256-bit
\* arithmetic under it. A target is its 32 bytes, byte 0 the most
\* significant one.
\* ------------------------------------------------------------------
BLOCK_TIME_TARGET == 600
MAX_ADJUSTMENT_FACTOR == 4

ZeroTarget == [i \in 0 .. 31 |-> 0]

\* target[i] = b when i is an index of the array; the guards `i < 32` of the source
PutByte(target, i, b) == IF i \in 0 .. 31 THEN [target EXCEPT ![i] = b] ELSE target

\* `32 - exponent` in usize: with overflow checks an exponent above 32 panics,
\* without them it wraps, and start + 1, start + 2 wrap back to small indexes
compact_to_target(compact) ==
    LET exponent == compact \div 16777216
        mantissa == compact % 8388608
        negative == (compact \div 8388608) % 2 = 1
        value == mantissa \div (256 ^ (3 - exponent))
        start == 32 - exponent
        low == PutByte(ZeroTarget, 31, value % 256)
        mid == IF exponent >= 2 THEN PutByte(low, 30, (value \div 256) % 256) ELSE low
        high == IF exponent >= 3 THEN PutByte(mid, 29, (value \div 65536) % 256) ELSE mid
    IN IF exponent = 0 THEN [panic |-> FALSE, target |-> ZeroTarget]
       ELSE IF negative THEN [panic |-> FALSE, target |-> ZeroTarget]
       ELSE IF exponent <= 3 THEN [panic |-> FALSE, target |-> high]
       ELSE IF start < 0 /\ overflow_checks THEN [panic |-> TRUE, target |-> ZeroTarget]
       ELSE [panic |-> FALSE,
             target |-> PutByte(PutByte(PutByte(ZeroTarget,
                            start, (mantissa \div 65536) % 256),
                            start + 1, (mantissa \div 256) % 256),
                            start + 2, mantissa % 256)]

target_to_compact(target) ==
    LET nonzero == {i \in 0 .. 31 : target[i] # 0}
        first_nonzero == IF nonzero = {} THEN 0
                         ELSE CHOOSE i \in nonzero : \A j \in nonzero : i <= j
        exponent == 32 - first_nonzero
        mantissa == target[first_nonzero] * 65536
                    + (IF first_nonzero + 1 < 32 THEN target[first_nonzero + 1] * 256 ELSE 0)
                    + (IF first_nonzero + 2 < 32 THEN target[first_nonzero + 2] ELSE 0)
    IN IF exponent = 0 THEN 0
       ELSE IF (mantissa \div 8388608) % 2 = 1
            THEN (exponent + 1) * 16777216 + (mantissa \div 256)
       ELSE exponent * 16777216 + mantissa

\* the loop `for i in (0..32).rev()` from index i down, with the carry so far
RECURSIVE multiply_from(_, _, _, _, _, _)
multiply_from(target, numerator, denominator, i, carry, result) ==
    IF i < 0 THEN result
    ELSE LET val == target[i] * numerator + carry
             new_val == val \div denominator
         IN multiply_from(target, numerator, denominator, i - 1,
                          (val % denominator) * 256,
                          [result EXCEPT ![i] = new_val % 256])

multiply_target(target, numerator, denominator) ==
    multiply_from(target, numerator, denominator, 31, 0, ZeroTarget)

calculate_next_difficulty(current_difficulty, first_block_time, last_block_time) ==
    LET measured == saturating_sub(last_block_time, first_block_time)
        expected_time == BLOCK_TIME_TARGET * DIFFICULTY_ADJUSTMENT_INTERVAL
        actual_time == Min(Max(measured, expected_time \div MAX_ADJUSTMENT_FACTOR),
                           expected_time * MAX_ADJUSTMENT_FACTOR)
        current_target == compact_to_target(current_difficulty)
        new_target == multiply_target(current_target.target, actual_time, expected_time)
        new_compact == target_to_compact(new_target)
    IN IF current_target.panic THEN [result |-> "panic", value |-> 0]
       ELSE IF new_compact > MIN_DIFFICULTY THEN [result |-> "ok", value |-> MIN_DIFFICULTY]
       ELSE [result |-> "ok", value |-> new_compact]

\* compact targets: the easiest one, harder ones, a tiny one, exponent 0,
\* the sign bit set, the largest exponent of a 256-bit target and one above it
Compacts ==
    {486604799, 469827583, 453248203, 50331649, 1193046, 494993407, 545259519, 553648129}

\* measured periods, as parts and multiples of the expected one
ExpectedTime == BLOCK_TIME_TARGET * DIFFICULTY_ADJUSTMENT_INTERVAL
Periods == {0, 1, ExpectedTime \div 8, ExpectedTime \div 4, ExpectedTime \div 2, ExpectedTime,
            ExpectedTime * 2, ExpectedTime * 4, ExpectedTime * 8}
FirstTimes == {GENESIS_TIMESTAMP, GENESIS_TIMESTAMP + ExpectedTime}

\* the last block's time: an earlier one, or the first block's time and a period
LastTimes(f) == {GENESIS_TIMESTAMP} \cup {f + p : p \in Periods}

RetargetInit ==
    /\ NodeInit
    /\ schedule = NoCall
    /\ \E c \in Compacts, f \in FirstTimes :
          \E l \in LastTimes(f) :
              retarget = [called |-> FALSE, current |-> c, first |-> f, last |-> l,
                          out |-> [result |-> "none", value |-> 0]]

\* calculate_next_difficulty(current_difficulty, first_block_time, last_block_time)
CallRetarget ==
    /\ ~retarget.called
    /\ retarget' = [retarget EXCEPT
                        !.called = TRUE,
                        !.out = calculate_next_difficulty(retarget.current, retarget.first,
                                                          retarget.last)]
    /\ UNCHANGED <<chain_vars, net_vars, sync_vars, node_vars, mine_vars, schedule, wire_vars>>

RetargetNext == CallRetarget

RetargetSpec == RetargetInit /\ [][RetargetNext]_vars

\* a <= b as 256-bit numbers
TargetLeq(a, b) ==
    \/ a = b
    \/ \E i \in 0 .. 31 : a[i] < b[i] /\ \A j \in 0 .. i - 1 : a[j] = b[j]

\* the target times a small factor, FALSE past 256 bits
RECURSIVE times_from(_, _, _, _, _)
times_from(target, factor, i, carry, result) ==
    IF i < 0 THEN [overflow |-> carry > 0, target |-> result]
    ELSE LET val == target[i] * factor + carry
         IN times_from(target, factor, i - 1, val \div 256, [result EXCEPT ![i] = val % 256])

\* a <= factor * b
WithinFactor(a, b, factor) ==
    LET fb == times_from(b, factor, 31, 0, ZeroTarget)
    IN fb.overflow \/ TargetLeq(a, fb.target)

\* the slack given to the rounding of the compact form: a factor of 5 for 4
Slack == MAX_ADJUSTMENT_FACTOR + 1

\* C30: for every compact target and pair of timestamps the call returns a
\* non-zero compact value not easier than MIN_DIFFICULTY, and unless that
\* value is MIN_DIFFICULTY the new target lies between a quarter of the
\* current target and four times it, up to the rounding of the compact form.
C30_RetargetBounded ==
    retarget.called =>
        /\ retarget.out.result = "ok"
        /\ retarget.out.value # 0
        /\ retarget.out.value <= MIN_DIFFICULTY
        /\ TargetLeq(compact_to_target(retarget.out.value).target,
                     compact_to_target(MIN_DIFFICULTY).target)
        /\ retarget.out.value # MIN_DIFFICULTY =>
              LET old_target == compact_to_target(retarget.current).target
                  new_target == compact_to_target(retarget.out.value).target
              IN /\ WithinFactor(new_target, old_target, Slack)
                 /\ WithinFactor(old_target, new_target, Slack)

\* ------------------------------------------------------------------
\* revert_tip on the genesis block
\* ------------------------------------------------------------------

\* C39: revert_tip called at height 0, with only genesis on the main chain,
\* returns an error or leaves the state unchanged: the height does not wrap
\* below 0, height_to_hash[0] stays the genesis hash and the genesis outputs
\* stay in the UTXO set.
C39_GenesisKept ==
    (~poisoned /\ height = 0 /\ tip_hash = GenesisHash) =>
        \A u \in {revert_tip(State)} :
            \/ u.result = "err" /\ u.st = State
            \/ /\ u.result = "ok"
               /\ u.st.height = 0
               /\ 0 \in DOMAIN u.st.height_to_hash
               /\ u.st.height_to_hash[0] = GenesisHash
               /\ u.st.utxo_set = utxo_set

\* ------------------------------------------------------------------
\* pending nonces and next_nonce
\* ------------------------------------------------------------------

\* every pool transaction's nonce is below next_nonce of its sender
NoncesBelowNext(s) ==
    \A h \in DOMAIN s.mempool :
        s.mempool[h].inputs # <<>> =>
            /\ Sender(s.mempool[h]) \in DOMAIN s.next_nonce
            /\ s.mempool[h].nonce < s.next_nonce[Sender(s.mempool[h])]

\* C37: in every reachable state each pool transaction's nonce is strictly
\* below next_nonce of its sender, and a successful add_to_mempool never
\* lowers next_nonce of the sender, also when it replaces a transaction
\* whose nonce is below the sender's latest pending nonce.
C37_NonceNeverLowered ==
    ~poisoned =>
        /\ NoncesBelowNext(State)
        /\ \A c \in PoolCalls :
              (c.r.result = "ok" /\ c.tx.inputs # <<>>) =>
                  /\ Sender(c.tx) \in DOMAIN c.r.st.next_nonce
                  /\ c.r.st.next_nonce[Sender(c.tx)] >= Expected(Sender(c.tx))
                  /\ NoncesBelowNext(c.r.st)

\* ------------------------------------------------------------------
\* UTXO keys of a new block
\* ------------------------------------------------------------------

\* the keys the block's transactions spend
SpentKeys(block) ==
    {<<block.transactions[i].inputs[j].prev_tx_hash, block.transactions[i].inputs[j].output_index>> :
        <<i, j>> \in {p \in (1 .. Len(block.transactions)) \X (1 .. 2) :
                        /\ ~is_coinbase(block.transactions[p[1]])
                        /\ p[2] <= Len(block.transactions[p[1]].inputs)}}

\* the keys the block's transactions create
CreatedKeys(block) ==
    {<<TxHash(block.transactions[p[1]]), p[2] - 1>> :
        p \in {q \in (1 .. Len(block.transactions)) \X (1 .. 3) :
                  q[2] <= Len(block.transactions[q[1]].outputs)}}

\* C40: apply_block never inserts a UTXO under a key that is already in the
\* UTXO set, so no unspent output is overwritten by a later block, or
\* deleted when that block is reverted.
C40_FreshKeys ==
    ~poisoned =>
        \A c \in Accepted :
            /\ \A k \in CreatedKeys(c.block) :
                  k \in DOMAIN utxo_set => k \in SpentKeys(c.block)
            /\ \A u \in {revert_tip(c.r.st)} :
                  \A k \in DOMAIN utxo_set : k \in DOMAIN u.st.utxo_set

\* ------------------------------------------------------------------
\* the window of recent timestamps
\* ------------------------------------------------------------------

\* the header timestamps of the last n main-chain blocks of s, oldest first
MainTimestamps(s, n) ==
    [i \in 1 .. n |-> s.full_blocks[s.height_to_hash[s.height - n + i]].header.timestamp]

\* the window is the timestamps of the last min(11, applied blocks) main-chain blocks
WindowIsRecent(s) ==
    /\ Len(s.recent_block_timestamps) <= MAX_TIMESTAMPS
    /\ s.recent_block_timestamps = MainTimestamps(s, Min(MAX_TIMESTAMPS, s.height))

\* C34: the window of recent timestamps holds at most 11 entries and is, in
\* order, the header timestamps of the last min(11, applied blocks)
\* main-chain blocks; after apply_block followed by revert_tip it is what it
\* was before the apply, also when it already held 11 entries.
C34_WindowRestored ==
    ~poisoned =>
        /\ WindowIsRecent(State)
        /\ \A c \in TimedCalls :
              c.r.result = "ok" =>
                  /\ WindowIsRecent(c.r.st)
                  /\ \A u \in {revert_tip(c.r.st)} :
                        /\ u.st.recent_block_timestamps = recent_block_timestamps
                        /\ WindowIsRecent(u.st)

\* ------------------------------------------------------------------
\* Blocks of a fork arriving at the peer loop in any order: the Block
\* handler of handle_peer on blocks of a side chain rooted at genesis,
\* some of them invalid, next to the blocks that extend the node's tip.
\* ------------------------------------------------------------------
MaxDeliverHeight == 2
ForkLength == 2

\* a block of the fork: a coinbase alone, paying nothing or more than any reward
ForkBlock(prev, valid) ==
    LET txs == <<coinbase(IF valid THEN 0 ELSE PUBLIC_ISSUANCE + 1, MinerPkh)>>
    IN Block([HonestHeader(prev, txs) EXCEPT !.nonce = 1], txs)

\* the blocks of the fork at depth n: valid or invalid blocks on those at depth n - 1
RECURSIVE ForkLevel(_)
ForkLevel(n) ==
    IF n = 1 THEN {ForkBlock(GenesisHash, valid) : valid \in BOOLEAN}
    ELSE {ForkBlock(BlockHash(b), valid) : b \in ForkLevel(n - 1), valid \in BOOLEAN}

ForkBlocks == UNION {ForkLevel(n) : n \in 1 .. ForkLength}

\* the blocks that may arrive: those of the fork, and the next block on the node's tip
DeliverBlocks ==
    ForkBlocks \cup (IF height < MaxDeliverHeight THEN {TimedBlock(State, HonestTime)} ELSE {})

\* Message::Block(block) handled by the peer loop
Deliver ==
    /\ ~poisoned
    /\ \E block \in DeliverBlocks :
          \E done \in {HandleBlockLocked(State, db, block, HonestTime)} :
              /\ ChainBecomes(done.a.r, done.a.store)
              /\ handled' = Message("block", block)
              /\ sent' = [i \in 1 .. Len(done.request_missing) |->
                             Message("getblocks", GetBlocksMessage(done.request_missing[i], ZeroHash))]
              /\ UNCHANGED <<net_vars, node_vars, mine_vars, calc_vars, wire_vars>>

DeliverStep == Deliver

DeliverSpec == Init /\ [][DeliverStep]_vars

\* every indexed block whose parent is indexed is one above its parent
HeightsFollowParents(s) ==
    \A h \in DOMAIN s.block_index :
        s.block_index[h].header.prev_hash \in DOMAIN s.block_index =>
            s.block_index[h].height = s.block_index[s.block_index[h].header.prev_hash].height + 1

\* the blocks of the main chain are indexed at their heights
MainChainHeights(s) ==
    \A k \in DOMAIN s.height_to_hash :
        s.height_to_hash[k] \in DOMAIN s.block_index => s.block_index[s.height_to_hash[k]].height = k

\* C33: in every reachable state an indexed block whose parent is indexed
\* too has the parent's height plus one; a block indexed at height 0 before
\* its parent was known has its height revised once the chain is extended
\* to it.
C33_HeightsFollowParents ==
    ~poisoned => (HeightsFollowParents(State) /\ MainChainHeights(State))

\* C38: after the Block handler of the peer loop returns, the height is at
\* least what it was before the message, also when the reorganize it
\* started fails on a block of the side chain after main-chain blocks were
\* reverted.
C38_HeightNotLowered ==
    ~poisoned =>
        \A block \in DeliverBlocks :
            \A done \in {HandleBlockLocked(State, db, block, HonestTime)} :
                done.a.r.result # "panic" => done.a.r.st.height >= height

\* ------------------------------------------------------------------
\* the connected set of the peer manager
\* ------------------------------------------------------------------

\* get_connected_peers(): the known peers whose state is Connected
get_connected_peers(pm) == {a \in DOMAIN pm.peers : pm.peers[a].state = "Connected"}

\* connected_count(): the size of the connected set
connected_count(pm) == Cardinality(pm.connected)

\* C35: after any sequence of peer manager operations the connected set is
\* the set of known peers whose state is Connected, so connected_count()
\* equals the length of get_connected_peers().
C35_ConnectedSetMatches ==
    /\ connected = get_connected_peers(Manager)
    /\ connected_count(Manager) = Cardinality(get_connected_peers(Manager))

\* ------------------------------------------------------------ the two mutexes
\* The places at which a task takes or gives back Arc<Mutex<ChainState>>
\* ("state") and Arc<Mutex<PeerManager>> ("pm"). A guard is given back at the
\* end of its block; what a task does between two places is left out, but the
\* way it takes after the call it made under the lock is kept as a choice.
Site(op, mutex, next) == [op |-> op, mutex |-> mutex, next |-> next]

\* main.rs 254-348, the mining loop
MinerSites(label) ==
    CASE label = "idle" -> {Site("lock", "pm", "syncing_pm")}                    \* 263
      [] label = "syncing_pm" -> {Site("lock", "state", "syncing_both")}         \* 264
      [] label = "syncing_both" -> {Site("unlock", "state", "syncing_drop")}     \* 266
      [] label = "syncing_drop" -> {Site("unlock", "pm", "idle"),                \* 267-270
                                    Site("unlock", "pm", "template")}
      [] label = "template" -> {Site("lock", "state", "template_locked")}        \* 276
      [] label = "template_locked" -> {Site("unlock", "state", "idle"),          \* no block found
                                       Site("unlock", "state", "found")}
      [] label = "found" -> {Site("lock", "state", "apply_err"),                 \* 315-317
                             Site("lock", "state", "apply_ok")}
      [] label = "apply_err" -> {Site("unlock", "state", "idle")}                \* 319
      [] label = "apply_ok" -> {Site("lock", "pm", "announcing")}                \* 340
      [] label = "announcing" -> {Site("unlock", "pm", "announced")}             \* 342
      [] label = "announced" -> {Site("unlock", "state", "idle")}                \* 343
      [] OTHER -> {}

\* rpc/methods.rs 414-430, send_raw_transaction
RpcSites(label) ==
    CASE label = "idle" -> {Site("lock", "state", "add_err"),                    \* 415-416
                            Site("lock", "state", "add_ok")}
      [] label = "add_err" -> {Site("unlock", "state", "idle")}
      [] label = "add_ok" -> {Site("lock", "pm", "relaying")}                    \* 421
      [] label = "relaying" -> {Site("unlock", "pm", "relayed")}
      [] label = "relayed" -> {Site("unlock", "state", "idle")}
      [] OTHER -> {}

\* main.rs 474-498 and 542-607, handle_peer on Version and on Block
PeerSites(label) ==
    CASE label = "idle" -> {Site("lock", "pm", "registering"),                   \* 480
                            Site("lock", "state", "block_rejected"),             \* 544
                            Site("lock", "state", "block_applied")}
      [] label = "registering" -> {Site("unlock", "pm", "idle"),                 \* 486-487
                                   Site("unlock", "pm", "behind")}
      [] label = "behind" -> {Site("lock", "state", "asking")}                   \* 488
      [] label = "asking" -> {Site("unlock", "state", "idle")}
      [] label = "block_rejected" -> {Site("unlock", "state", "idle")}
      [] label = "block_applied" -> {Site("unlock", "state", "relay")}           \* 590
      [] label = "relay" -> {Site("lock", "pm", "relay_locked")}                 \* 597
      [] label = "relay_locked" -> {Site("unlock", "pm", "idle")}
      [] OTHER -> {}

Sites(t) ==
    CASE t = "miner" -> MinerSites(pc[t])
      [] t = "rpc" -> RpcSites(pc[t])
      [] t = "peer" -> PeerSites(pc[t])

\* std::sync::Mutex::lock: the caller goes on once the mutex is free
TakeState ==
    \E t \in Tasks : \E site \in Sites(t) :
        /\ site.op = "lock" /\ site.mutex = "state"
        /\ lock = "none"
        /\ lock' = t
        /\ pc' = [pc EXCEPT ![t] = site.next]
        /\ UNCHANGED <<chain_vars, net_vars, sync_vars, calc_vars, mine_vars, work, broadcasts,
                       stop_signal, pm_lock, remote, to_node, to_peer, link>>

TakePm ==
    \E t \in Tasks : \E site \in Sites(t) :
        /\ site.op = "lock" /\ site.mutex = "pm"
        /\ pm_lock = "none"
        /\ pm_lock' = t
        /\ pc' = [pc EXCEPT ![t] = site.next]
        /\ UNCHANGED <<chain_vars, net_vars, sync_vars, calc_vars, mine_vars, work, broadcasts,
                       stop_signal, lock, remote, to_node, to_peer, link>>

\* the guard goes out of scope
DropState ==
    \E t \in Tasks : \E site \in Sites(t) :
        /\ site.op = "unlock" /\ site.mutex = "state"
        /\ lock = t
        /\ lock' = "none"
        /\ pc' = [pc EXCEPT ![t] = site.next]
        /\ UNCHANGED <<chain_vars, net_vars, sync_vars, calc_vars, mine_vars, work, broadcasts,
                       stop_signal, pm_lock, remote, to_node, to_peer, link>>

DropPm ==
    \E t \in Tasks : \E site \in Sites(t) :
        /\ site.op = "unlock" /\ site.mutex = "pm"
        /\ pm_lock = t
        /\ pm_lock' = "none"
        /\ pc' = [pc EXCEPT ![t] = site.next]
        /\ UNCHANGED <<chain_vars, net_vars, sync_vars, calc_vars, mine_vars, work, broadcasts,
                       stop_signal, lock, remote, to_node, to_peer, link>>

LockNext == TakeState \/ TakePm \/ DropState \/ DropPm

LockSpec == Init /\ [][LockNext]_vars

\* the task waits in lock() for the mutex, which another task holds
WaitsFor(t, mutex) ==
    /\ Sites(t) # {}
    /\ \A site \in Sites(t) : site.op = "lock" /\ site.mutex = mutex
    /\ (IF mutex = "state" THEN lock ELSE pm_lock) \notin {"none", t}

\* C36: no two tasks ever wait for each other, one holding the ChainState
\* mutex and wanting the PeerManager mutex while the other holds the
\* PeerManager mutex and wants the ChainState mutex.
C36_NoLockCycle ==
    ~ \E a \in Tasks, b \in Tasks :
        /\ a # b
        /\ lock = a /\ WaitsFor(a, "pm")
        /\ pm_lock = b /\ WaitsFor(b, "state")

\* ------------------------------------------------------------ block locators
\* height the chain grows to before locators are built on it
MaxLocatorHeight == 14

\* the chain grows by the next honest block
GrowChain ==
    /\ ~poisoned
    /\ height < MaxLocatorHeight
    /\ \E r \in {apply_block(State, TimedBlock(State, HonestTime), HonestTime)} :
          /\ r.result = "ok"
          /\ Becomes(r)

\* main.rs 571: a locator is built from a height of the main chain
BuildLocator ==
    /\ ~poisoned
    /\ \E h \in 0..height :
        \E heights \in {<<h>>, <<0, h>>} :
          /\ handled' = Message("locator", heights)
          /\ sent' = build_block_locator(State, heights)
          /\ UNCHANGED <<chain_vars, net_vars, node_vars, mine_vars, calc_vars, wire_vars>>

LocatorNext == GrowChain \/ BuildLocator

LocatorSpec == Init /\ [][LocatorNext]_vars

\* the height of the main chain at which the hash stands
MainHeightOf(s, hash) == CHOOSE k \in DOMAIN s.height_to_hash : s.height_to_hash[k] = hash

RECURSIVE TwoTo(_)
TwoTo(n) == IF n <= 0 THEN 1 ELSE 2 * TwoTo(n - 1)

\* the step between entry i and the entry after it
LocatorStep(i) == IF i <= LOCATOR_DENSE + 1 THEN 1 ELSE TwoTo(i - LOCATOR_DENSE - 1)

LocatorFrom(s, h, locator) ==
    LET n == Len(locator)
        at(i) == MainHeightOf(s, locator[i])
    IN /\ n >= 1
       /\ \A i \in 1..n : \E k \in DOMAIN s.height_to_hash : s.height_to_hash[k] = locator[i]
       /\ locator[1] = s.height_to_hash[h]
       /\ \A i \in 1..(n - 1) : at(i) > at(i + 1)
       /\ \A i \in 1..(n - 2) : at(i) - at(i + 1) = LocatorStep(i)
       /\ n >= 2 => at(n - 1) <= LocatorStep(n - 1)
       /\ locator[n] = GenesisHash
       /\ \A i \in 1..(n - 1) : locator[i] # GenesisHash

\* C32: build_block_locator started at a height h of the main chain returns
\* main-chain hashes at strictly decreasing heights, the first the hash at h,
\* each one step below the one before, the step being 1 up to the twelfth
\* entry and doubling from there on, and the last the genesis hash, which
\* stands nowhere else in the list.
C32_LocatorShape ==
    /\ \A h \in 0..height :
          /\ LocatorFrom(State, h, build_block_locator(State, <<h>>))
          /\ build_block_locator(State, <<0, h>>) = build_block_locator(State, <<h>>)
    /\ handled.type = "locator" =>
          LocatorFrom(State, handled.body[Len(handled.body)], sent)

\* a locator long enough for the step to have doubled
C32_Witness ==
    /\ handled.type = "locator"
    /\ Len(sent) > LOCATOR_DENSE + 3
    /\ MainHeightOf(State, sent[LOCATOR_DENSE + 2]) - MainHeightOf(State, sent[LOCATOR_DENSE + 3]) = 2
    /\ sent[Len(sent)] = GenesisHash

\* ------------------------------------------------------------ catching up with a peer
\* This node and one peer, each running handle_peer on its end of the
\* connection; the messages of each direction arrive in the order sent.
\* height of the peer's chain when the node connects, at most
MaxPeerHeight == 4
\* height of the node's own chain when it connects, at most
MaxNodeStart == 1

PeerAddr == "a1"

VersionMessage(best_height) == [version |-> 1, best_height |-> best_height]

\* main.rs 542-582: whether the Block handler ended with Some(stats), given
\* the state index_block left and what the handler did under the lock
BlockApplied(indexed, block, done) ==
    /\ done.a.r.result = "ok"
    /\ \/ block.header.prev_hash = indexed.tip_hash
       \/ Max(get_block_height(indexed, BlockHash(block)), 0) > indexed.height

\* main.rs 584-606: what the Block handler sends once the lock is given back
\* (peer.rs of this tree has no broadcast_message; it is taken to send the
\* message on the channel of every connected peer)
BlockOutcome(applied, block, done) ==
    [a |-> done.a,
     out |-> [i \in 1..Len(done.request_missing) |->
                 Message("getblocks", GetBlocksMessage(done.request_missing[i], ZeroHash))],
     relay |-> IF applied THEN <<Message("inv", <<BlockHash(block)>>)>> ELSE <<>>]

\* main.rs 470-689: what one pass of the message loop does with a message:
\* the state and store it leaves, what it puts on peer_tx, and what it hands
\* to broadcast_message
HandleMessage(s, store, local_height, msg, now) ==
    LET same == [r |-> Ok(s), store |-> store]
    IN CASE msg.type = "version" ->
              [a |-> same,
               out |-> <<Message("verack", None)>>
                       \o (IF msg.body.best_height > local_height
                           THEN <<Message("getblocks", GetBlocksMessage(<<s.tip_hash>>, ZeroHash))>>
                           ELSE <<>>),
               relay |-> <<>>]
         [] msg.type = "inv" ->
              [a |-> same,
               out |-> [i \in 1..Len(msg.body) |-> Message("getdata", <<msg.body[i]>>)],
               relay |-> <<>>]
         [] msg.type = "getdata" ->
              [a |-> same,
               out |-> LET found == SelectSeq(msg.body, LAMBDA hash : hash \in DOMAIN s.full_blocks)
                       IN [i \in 1..Len(found) |-> Message("block", s.full_blocks[found[i]])],
               relay |-> <<>>]
         [] msg.type = "block" ->
              \* applied as the handler's own flag: the call is made once
              LET outcome(done) == BlockOutcome(BlockApplied(index_block(s, msg.body), msg.body, done),
                                                msg.body, done)
              IN outcome(HandleBlockLocked(s, store, msg.body, now))
         [] msg.type = "getblocks" ->
              [a |-> same,
               out |-> IF GetBlocksItems(s, msg.body) # <<>>
                       THEN <<Message("inv", GetBlocksItems(s, msg.body))>>
                       ELSE <<>>,
               relay |-> <<>>]
         [] OTHER -> [a |-> same, out |-> <<>>, relay |-> <<>>]

\* the peer's chain grows before the node connects
PeerMines ==
    /\ ~link.up
    /\ remote.st.height < MaxPeerHeight
    /\ \E a \in {apply_block_db(remote.st, remote.store, TimedBlock(remote.st, HonestTime),
                                HonestTime, "none")} :
          /\ a.r.result = "ok"
          /\ remote' = [st |-> a.r.st, store |-> a.store]
    /\ UNCHANGED <<chain_vars, net_vars, sync_vars, node_vars, mine_vars, calc_vars,
                   pm_lock, to_node, to_peer, link>>

\* the node has the first blocks of that chain before it connects
NodeStarts ==
    /\ ~link.up
    /\ height < MaxNodeStart
    /\ height < remote.st.height
    /\ GrowChain

\* main.rs 440-450: each end reads its height once and sends its Version
Connect ==
    /\ ~link.up
    /\ ~poisoned
    /\ height < remote.st.height
    /\ link' = [up |-> TRUE, node_height |-> height, peer_height |-> remote.st.height]
    /\ to_peer' = <<Message("version", VersionMessage(height))>>
    /\ to_node' = <<Message("version", VersionMessage(remote.st.height))>>
    /\ UNCHANGED <<chain_vars, net_vars, sync_vars, node_vars, mine_vars, calc_vars,
                   pm_lock, remote>>

\* the two ends of the connection
Ends == {"node", "peer"}

\* main.rs 470-689: the message loop of one end handles the next message
\* from the other end; what it sends and what it broadcasts go to the other
\* end, the only peer it has registered
HandlesAt(end) ==
    /\ link.up
    /\ (IF end = "node" THEN to_node ELSE to_peer) # <<>>
    /\ end = "node" => ~poisoned
    /\ \E msg \in {Head(IF end = "node" THEN to_node ELSE to_peer)} :
        \E h \in {HandleMessage(IF end = "node" THEN State ELSE remote.st,
                                IF end = "node" THEN db ELSE remote.store,
                                IF end = "node" THEN link.node_height ELSE link.peer_height,
                                msg, HonestTime)} :
          IF end = "node"
          THEN /\ ChainBecomes(h.a.r, h.a.store)
               /\ to_node' = Tail(to_node)
               /\ to_peer' = to_peer \o h.out \o h.relay
               /\ handled' = msg
               /\ sent' = h.out
               /\ IF msg.type = "version"
                  THEN \E pm \in {peer_connected(add_peer(Manager, PeerAddr), PeerAddr,
                                                 msg.body.version, msg.body.best_height)} :
                           peers' = pm.peers /\ connected' = pm.connected
                  ELSE UNCHANGED net_vars
               /\ stop_signal' = (stop_signal \/ h.relay # <<>>)
               /\ UNCHANGED <<lock, pc, work, broadcasts, mine_vars, calc_vars, pm_lock,
                              remote, link>>
          ELSE /\ remote' = [st |-> h.a.r.st, store |-> h.a.store]
               /\ to_peer' = Tail(to_peer)
               /\ to_node' = to_node \o h.out \o h.relay
               /\ UNCHANGED <<chain_vars, net_vars, sync_vars, node_vars, mine_vars, calc_vars,
                              pm_lock, link>>

Handles == \E end \in Ends : HandlesAt(end)

CatchUpNext == PeerMines \/ NodeStarts \/ Connect \/ Handles

CatchUpSpec == Init /\ [][CatchUpNext]_vars

\* a message loop that has a message to read gets to read it
FairCatchUpSpec == CatchUpSpec /\ WF_vars(HandlesAt("node")) /\ WF_vars(HandlesAt("peer"))

\* C31: once the node is connected to a peer whose chain extends its own, it
\* eventually has the peer's tip as its own.
C31_CatchesUp == link.up ~> (tip_hash = remote.st.tip_hash)

====
